---- MODULE Spec2Model ----
(***************************************************************************)
(* Model of the SME financial diagnosis service: the ratio calculator      *)
(* (utils/calculator), the comparator / risk classifier / narrative        *)
(* generator (utils/diagnosis, in its two revisions) and the part of the   *)
(* POST /api/diagnose handler that composes them.                          *)
(*                                                                         *)
(* Numbers.  A JavaScript number is modelled as an exact rational <<n, d>> *)
(* in lowest terms with d > 0; `undefined` is <<>> and SQL/JSON `null` is  *)
(* <<"null">>.  Arithmetic is exact: the binary floating point error of a  *)
(* double (about 1e-16 relative) is not modelled, so every statement below *)
(* is about the decimal values the code computes.                          *)
(***************************************************************************)
EXTENDS Integers, Sequences, FiniteSets, TLC

VARIABLES
    pc,              \* "start" before the operation under study ran, "done" after
    diagnosisModule, \* which revision of utils/diagnosis the build bundles
    financials,      \* request body of POST /api/diagnose (CompanyFinancials)
    sinboResult,     \* benchmark row found for the request (SinboRatio)
    industryName,    \* industryResult.name
    diagnosis,       \* DiagnosisResult returned by compareRatios
    args,            \* arguments of a direct call (roundRatio, compareRatio) or the HTTP request
    ret,             \* its result, or the HTTP response
    calls,           \* the diagnoses computed so far by this isolate, oldest first
    db,              \* the D1 database: industry_codes, sinbo_ratios, diagnosis_history,
                     \* admin_users
    log,             \* the statements of the handler executed for the request, in order
    now,             \* Date.now(), in milliseconds
    issued           \* the tokens POST /api/admin/login has returned so far

vars == <<pc, diagnosisModule, financials, sinboResult, industryName, diagnosis, args, ret,
          calls, db, log, now, issued>>

----------------------------------------------------------------------------
(* JavaScript values *)

Undefined == <<>>
Null == <<"null">>

Abs(i) == IF i < 0 THEN -i ELSE i

RECURSIVE GCD(_, _)
GCD(a, b) == IF b = 0 THEN a ELSE GCD(b, a % b)

\* the rational n/d (d # 0) in lowest terms with a positive denominator
Norm(n, d) ==
    LET g == GCD(Abs(n), Abs(d))
        s == IF d < 0 THEN -1 ELSE 1
    IN  <<(s * n) \div g, (s * d) \div g>>

Num(i) == <<i, 1>>
Zero == Num(0)
IsNumber(v) == Len(v) = 2

\* products cancel common factors first to keep the intermediate values small
RMul(x, y) ==
    LET g1 == GCD(Abs(x[1]), y[2])
        g2 == GCD(Abs(y[1]), x[2])
    IN  Norm((x[1] \div g1) * (y[1] \div g2), (x[2] \div g2) * (y[2] \div g1))
RDiv(x, y) == RMul(x, IF y[1] < 0 THEN <<-y[2], -y[1]>> ELSE <<y[2], y[1]>>)
RSub(x, y) == Norm(x[1] * y[2] - y[1] * x[2], x[2] * y[2])
RLe(x, y) == x[1] * y[2] <= y[1] * x[2]
RLt(x, y) == x[1] * y[2] < y[1] * x[2]
RGe(x, y) == RLe(y, x)
RGt(x, y) == RLt(y, x)
RAbs(x) == <<Abs(x[1]), x[2]>>

\* JavaScript truthiness of a number | undefined | null
Truthy(v) == IsNumber(v) /\ v[1] # 0

\* Math.round: the nearest integer, a tie going towards +Infinity
MathRound(x) == (x[1] \div x[2]) + (IF 2 * (x[1] % x[2]) >= x[2] THEN 1 ELSE 0)

\* x / 0 for x # 0 is +-Infinity, written <<+-1, 0>>; it is what RDiv yields for it
IsFinite(v) == IsNumber(v) /\ v[2] # 0

\* Number.prototype.toFixed(1) of a non-negative number: one decimal, a tie going up;
\* Infinity prints as itself
toFixed1(x) == IF IsFinite(x) THEN Norm(MathRound(RMul(x, <<10, 1>>)), 10) ELSE x

\* property access on an object that may lack the key
Get(obj, key) == IF key \in DOMAIN obj THEN obj[key] ELSE Undefined

EmptyObject == [k \in {} |-> Undefined]
Put(obj, key, value) == (key :> value) @@ obj

----------------------------------------------------------------------------
(* types.ts *)

RatioNames ==
    <<"current_ratio", "quick_ratio", "debt_ratio", "equity_ratio",
      "operating_margin", "net_margin", "roa", "roe",
      "asset_turnover", "inventory_turnover", "receivable_turnover",
      "interest_coverage">>

RatioSet == {RatioNames[i] : i \in DOMAIN RatioNames}

FinancialFields ==
    {"sales", "current_assets", "current_liabilities", "quick_assets",
     "total_assets", "total_liabilities", "equity", "operating_income",
     "net_income", "inventory", "receivables", "interest_expense"}

----------------------------------------------------------------------------
(* utils/calculator *)

Hundred == Num(100)

\* One operator per `if` of calculateFinancialRatios: the key it stores in `ratios`,
\* if any.  The twelve keys differ, so the object is their union.

WithCurrentRatio(f) ==
    IF Truthy(f.current_assets) /\ Truthy(f.current_liabilities)
    THEN Put(EmptyObject, "current_ratio", RMul(RDiv(f.current_assets, f.current_liabilities), Hundred))
    ELSE EmptyObject

WithQuickRatio(f) ==
    IF Truthy(f.quick_assets) /\ Truthy(f.current_liabilities)
    THEN Put(EmptyObject, "quick_ratio", RMul(RDiv(f.quick_assets, f.current_liabilities), Hundred))
    ELSE IF Truthy(f.current_assets) /\ Truthy(f.inventory) /\ Truthy(f.current_liabilities)
    THEN LET quickAssets == RSub(f.current_assets, f.inventory)
         IN  Put(EmptyObject, "quick_ratio", RMul(RDiv(quickAssets, f.current_liabilities), Hundred))
    ELSE EmptyObject

WithDebtRatio(f) ==
    IF Truthy(f.total_liabilities) /\ Truthy(f.equity)
    THEN Put(EmptyObject, "debt_ratio", RMul(RDiv(f.total_liabilities, f.equity), Hundred))
    ELSE EmptyObject

WithEquityRatio(f) ==
    IF Truthy(f.equity) /\ Truthy(f.total_assets)
    THEN Put(EmptyObject, "equity_ratio", RMul(RDiv(f.equity, f.total_assets), Hundred))
    ELSE EmptyObject

WithOperatingMargin(f) ==
    IF Truthy(f.operating_income) /\ Truthy(f.sales)
    THEN Put(EmptyObject, "operating_margin", RMul(RDiv(f.operating_income, f.sales), Hundred))
    ELSE EmptyObject

\* a missing operand reported as a ratio of 0 instead of leaving the key out
WithNetMarginNullAsZero(f) ==
    IF Truthy(f.net_income) /\ Truthy(f.sales)
    THEN Put(EmptyObject, "net_margin", RMul(RDiv(f.net_income, f.sales), Hundred))
    ELSE Put(EmptyObject, "net_margin", Zero)

WithNetMargin(f) ==
    IF Truthy(f.net_income) /\ Truthy(f.sales)
    THEN Put(EmptyObject, "net_margin", RMul(RDiv(f.net_income, f.sales), Hundred))
    ELSE EmptyObject

WithRoa(f) ==
    IF Truthy(f.net_income) /\ Truthy(f.total_assets)
    THEN Put(EmptyObject, "roa", RMul(RDiv(f.net_income, f.total_assets), Hundred))
    ELSE EmptyObject

WithRoe(f) ==
    IF Truthy(f.net_income) /\ Truthy(f.equity)
    THEN Put(EmptyObject, "roe", RMul(RDiv(f.net_income, f.equity), Hundred))
    ELSE EmptyObject

\* the turnover scaled by 100 like the percentage ratios above it
WithAssetTurnoverAsPercentage(f) ==
    IF Truthy(f.sales) /\ Truthy(f.total_assets)
    THEN Put(EmptyObject, "asset_turnover", RMul(RDiv(f.sales, f.total_assets), Hundred))
    ELSE EmptyObject

WithAssetTurnover(f) ==
    IF Truthy(f.sales) /\ Truthy(f.total_assets)
    THEN Put(EmptyObject, "asset_turnover", RDiv(f.sales, f.total_assets))
    ELSE EmptyObject

WithInventoryTurnover(f) ==
    IF Truthy(f.sales) /\ Truthy(f.inventory)
    THEN Put(EmptyObject, "inventory_turnover", RDiv(f.sales, f.inventory))
    ELSE EmptyObject

WithReceivableTurnover(f) ==
    IF Truthy(f.sales) /\ Truthy(f.receivables)
    THEN Put(EmptyObject, "receivable_turnover", RDiv(f.sales, f.receivables))
    ELSE EmptyObject

WithInterestCoverage(f) ==
    IF Truthy(f.operating_income) /\ Truthy(f.interest_expense)
    THEN Put(EmptyObject, "interest_coverage", RDiv(f.operating_income, f.interest_expense))
    ELSE EmptyObject

calculateFinancialRatios(f) ==
    WithCurrentRatio(f) @@ WithQuickRatio(f) @@ WithDebtRatio(f) @@ WithEquityRatio(f)
    @@ WithOperatingMargin(f) @@ WithNetMargin(f) @@ WithRoa(f) @@ WithRoe(f)
    @@ WithAssetTurnover(f) @@ WithInventoryTurnover(f) @@ WithReceivableTurnover(f)
    @@ WithInterestCoverage(f)

\* isNaN never holds of a value calculateFinancialRatios stores: every division
\* is guarded by the truthiness of its denominator
\* rounding half away from zero: -12.5 goes to -13
roundRatioHalfAwayFromZero(value) ==
    IF value = Undefined THEN Undefined
    ELSE LET scaled == RMul(value, Hundred)
             magnitude == MathRound(RAbs(scaled))
         IN  RDiv(Num(IF scaled[1] < 0 THEN -magnitude ELSE magnitude), Hundred)

roundRatio(value) ==
    IF value = Undefined THEN Undefined
    ELSE IF IsFinite(value) THEN RDiv(Num(MathRound(RMul(value, Hundred))), Hundred)
    ELSE value

roundAllRatios(ratios) == [key \in DOMAIN ratios |-> roundRatio(ratios[key])]

----------------------------------------------------------------------------
(* utils/diagnosis: compareRatio, calculateRiskLevel, generateOverallComment *)
(* and extractIndustryAverages read the same in both revisions               *)

Ten == Num(10)
MinusTen == Num(-10)

\* higher-is-better with an exclusive upper threshold: differencePct > 10
StatusOfExclusiveGood(differencePct, higherIsBetter) ==
    IF higherIsBetter
    THEN IF RGt(differencePct, Ten) THEN "good"
         ELSE IF RGe(differencePct, MinusTen) THEN "warning"
         ELSE "danger"
    ELSE IF RLe(differencePct, MinusTen) THEN "good"
         ELSE IF RLe(differencePct, Ten) THEN "warning"
         ELSE "danger"

\* lower-is-better with the inclusive ends of the higher-is-better branch mirrored
StatusOfMirrored(differencePct, higherIsBetter) ==
    IF higherIsBetter
    THEN IF RGe(differencePct, Ten) THEN "good"
         ELSE IF RGe(differencePct, MinusTen) THEN "warning"
         ELSE "danger"
    ELSE IF RLt(differencePct, MinusTen) THEN "good"
         ELSE IF RLt(differencePct, Ten) THEN "warning"
         ELSE "danger"

\* the status branch of compareRatio
StatusOf(differencePct, higherIsBetter) ==
    IF higherIsBetter
    THEN IF RGe(differencePct, Ten) THEN "good"
         ELSE IF RGe(differencePct, MinusTen) THEN "warning"
         ELSE "danger"
    ELSE IF RLe(differencePct, MinusTen) THEN "good"
         ELSE IF RLe(differencePct, Ten) THEN "warning"
         ELSE "danger"

\* the comment of the same branch, kept as its template and the number interpolated
CommentOf(differencePct, higherIsBetter) ==
    IF higherIsBetter
    THEN IF RGe(differencePct, Ten)
         THEN <<"above_average_good", toFixed1(differencePct)>>
         ELSE IF RGe(differencePct, MinusTen)
         THEN <<"average_level">>
         ELSE <<"below_average_improve", toFixed1(RAbs(differencePct))>>
    ELSE IF RLe(differencePct, MinusTen)
         THEN <<"below_average_good", toFixed1(RAbs(differencePct))>>
         ELSE IF RLe(differencePct, Ten)
         THEN <<"average_level">>
         ELSE <<"above_average_improve", toFixed1(differencePct)>>

\* Math.round(x * 100) / 100; Math.round(+-Infinity) is +-Infinity
Round2(x) == IF IsFinite(x) THEN RDiv(Num(MathRound(RMul(x, Hundred))), Hundred) ELSE x

\* the difference taken against the displayed (rounded) average
compareRatioAgainstRoundedAverage(ratioName, ratioNameKr, companyValue, industryAvg, higherIsBetter) ==
    LET differencePct ==
            RMul(RDiv(RSub(companyValue, Round2(industryAvg)), Round2(industryAvg)), Hundred)
    IN  [ratio_name     |-> ratioName,
         ratio_name_kr  |-> ratioNameKr,
         company_value  |-> Round2(companyValue),
         industry_avg   |-> Round2(industryAvg),
         difference_pct |-> Round2(differencePct),
         status         |-> StatusOf(differencePct, higherIsBetter),
         comment        |-> CommentOf(differencePct, higherIsBetter)]

\* the status decided on the difference in points, not in percent
compareRatioOnPointDifference(ratioName, ratioNameKr, companyValue, industryAvg, higherIsBetter) ==
    LET differencePct == RMul(RDiv(RSub(companyValue, industryAvg), industryAvg), Hundred)
    IN  [ratio_name     |-> ratioName,
         ratio_name_kr  |-> ratioNameKr,
         company_value  |-> Round2(companyValue),
         industry_avg   |-> Round2(industryAvg),
         difference_pct |-> Round2(differencePct),
         status         |-> StatusOf(RSub(companyValue, industryAvg), higherIsBetter),
         comment        |-> CommentOf(differencePct, higherIsBetter)]

compareRatio(ratioName, ratioNameKr, companyValue, industryAvg, higherIsBetter) ==
    LET differencePct == RMul(RDiv(RSub(companyValue, industryAvg), industryAvg), Hundred)
    IN  [ratio_name     |-> ratioName,
         ratio_name_kr  |-> ratioNameKr,
         company_value  |-> Round2(companyValue),
         industry_avg   |-> Round2(industryAvg),
         difference_pct |-> Round2(differencePct),
         status         |-> StatusOf(differencePct, higherIsBetter),
         comment        |-> CommentOf(differencePct, higherIsBetter)]

\* comparisons.filter((c) => c.status === st).length
CountStatus(comparisons, st) ==
    Cardinality({i \in DOMAIN comparisons : comparisons[i].status = st})

\* the thresholds one too low
calculateRiskLevelOffByOne(comparisons) ==
    LET dangerCount == CountStatus(comparisons, "danger")
    IN  IF dangerCount >= 2 THEN "HIGH"
        ELSE IF dangerCount >= 1 THEN "MEDIUM"
        ELSE "LOW"

calculateRiskLevel(comparisons) ==
    LET dangerCount == CountStatus(comparisons, "danger")
    IN  IF dangerCount >= 3 THEN "HIGH"
        ELSE IF dangerCount >= 2 THEN "MEDIUM"
        ELSE "LOW"

\* the LOW template interpolating the danger count like the other two
generateOverallCommentDangerOnly(comparisons, riskLevel) ==
    LET dangerCount == CountStatus(comparisons, "danger")
    IN  IF riskLevel = "LOW" THEN <<"sound", dangerCount>>
        ELSE IF riskLevel = "MEDIUM" THEN <<"average_needs_improvement", dangerCount>>
        ELSE <<"vulnerable", dangerCount>>

generateOverallComment(comparisons, riskLevel) ==
    LET goodCount == CountStatus(comparisons, "good")
        dangerCount == CountStatus(comparisons, "danger")
    IN  IF riskLevel = "LOW" THEN <<"sound", goodCount>>
        ELSE IF riskLevel = "MEDIUM" THEN <<"average_needs_improvement", dangerCount>>
        ELSE <<"vulnerable", dangerCount>>

extractIndustryAverages(industryAvg) ==
    [k \in RatioSet |-> industryAvg[k]]

\* every ratio compared as higher-is-better
PushIfAlwaysHigher(companyRatios, industryAvg, name, nameKr, higherIsBetter) ==
    IF Truthy(Get(companyRatios, name)) /\ Truthy(industryAvg[name])
    THEN <<compareRatio(name, nameKr, companyRatios[name], industryAvg[name], TRUE)>>
    ELSE <<>>

\* the average tested for null only, so that an average of 0 is divided by
PushIfAverageNotNull(companyRatios, industryAvg, name, nameKr, higherIsBetter) ==
    IF Truthy(Get(companyRatios, name)) /\ IsNumber(industryAvg[name])
    THEN <<compareRatio(name, nameKr, companyRatios[name], industryAvg[name],
                        higherIsBetter)>>
    ELSE <<>>

\* if (companyRatios[name] && industryAvg[name]) comparisons.push(compareRatio(...)):
\* the entries the statement pushes
PushIf(companyRatios, industryAvg, name, nameKr, higherIsBetter) ==
    IF Truthy(Get(companyRatios, name)) /\ Truthy(industryAvg[name])
    THEN <<compareRatio(name, nameKr, companyRatios[name], industryAvg[name],
                        higherIsBetter)>>
    ELSE <<>>

\* comparisons.filter((c) => c.status === 'danger')
RECURSIVE DangerRatios(_)
DangerRatios(comparisons) ==
    IF comparisons = <<>> THEN <<>>
    ELSE IF Head(comparisons).status = "danger"
         THEN <<Head(comparisons)>> \o DangerRatios(Tail(comparisons))
         ELSE DangerRatios(Tail(comparisons))

RECURSIVE Concat(_)
Concat(seqs) == IF seqs = <<>> THEN <<>> ELSE Head(seqs) \o Concat(Tail(seqs))

(* the 12-ratio revision *)

\* the strings one danger ratio pushes
RecommendationsFor(name) ==
    (IF name = "current_ratio" THEN <<"improve_current_ratio">> ELSE <<>>)
    \o (IF name = "quick_ratio" THEN <<"improve_quick_ratio">> ELSE <<>>)
    \o (IF name = "debt_ratio" THEN <<"improve_debt_ratio">> ELSE <<>>)
    \o (IF name = "equity_ratio" THEN <<"strengthen_equity_ratio">> ELSE <<>>)
    \o (IF name = "operating_margin" THEN <<"improve_operating_margin">> ELSE <<>>)
    \o (IF name = "net_margin" THEN <<"improve_net_margin">> ELSE <<>>)
    \o (IF name = "roa" THEN <<"raise_roa">> ELSE <<>>)
    \o (IF name = "roe" THEN <<"raise_roe">> ELSE <<>>)
    \o (IF name = "asset_turnover" THEN <<"improve_asset_turnover">> ELSE <<>>)
    \o (IF name = "inventory_turnover" THEN <<"improve_inventory_turnover">> ELSE <<>>)
    \o (IF name = "receivable_turnover" THEN <<"improve_receivable_turnover">> ELSE <<>>)
    \o (IF name = "interest_coverage" THEN <<"improve_interest_coverage">> ELSE <<>>)

\* the closing message pushed whether or not an advisory was pushed before it
generateRecommendationsAlwaysMaintain(comparisons) ==
    LET dangerRatios == DangerRatios(comparisons)
        recommendations ==
            Concat([i \in DOMAIN dangerRatios |->
                        RecommendationsFor(dangerRatios[i].ratio_name)])
    IN  recommendations \o <<"maintain_and_monitor">>

\* the list returned as collected, without the closing message
generateRecommendationsAsCollected(comparisons) ==
    LET dangerRatios == DangerRatios(comparisons)
    IN  Concat([i \in DOMAIN dangerRatios |->
                    RecommendationsFor(dangerRatios[i].ratio_name)])

generateRecommendations(comparisons) ==
    LET dangerRatios == DangerRatios(comparisons)
        recommendations ==
            Concat([i \in DOMAIN dangerRatios |->
                        RecommendationsFor(dangerRatios[i].ratio_name)])
    IN  IF Len(recommendations) = 0 THEN <<"maintain_and_monitor">>
        ELSE recommendations

\* the debt_ratio statement placed ahead of the two liquidity statements
ComparisonsDebtFirst(companyRatios, industryAvg) ==
    PushIf(companyRatios, industryAvg, "debt_ratio", "debt_ratio_pct", FALSE)
    \o PushIf(companyRatios, industryAvg, "current_ratio", "current_ratio_pct", TRUE)
    \o PushIf(companyRatios, industryAvg, "quick_ratio", "quick_ratio_pct", TRUE)
    \o PushIf(companyRatios, industryAvg, "equity_ratio", "equity_ratio_pct", TRUE)
    \o PushIf(companyRatios, industryAvg, "operating_margin", "operating_margin_pct", TRUE)
    \o PushIf(companyRatios, industryAvg, "net_margin", "net_margin_pct", TRUE)
    \o PushIf(companyRatios, industryAvg, "roa", "roa_pct", TRUE)
    \o PushIf(companyRatios, industryAvg, "roe", "roe_pct", TRUE)
    \o PushIf(companyRatios, industryAvg, "asset_turnover", "asset_turnover_times", TRUE)
    \o PushIf(companyRatios, industryAvg, "inventory_turnover", "inventory_turnover_times", TRUE)
    \o PushIf(companyRatios, industryAvg, "receivable_turnover", "receivable_turnover_times", TRUE)
    \o PushIf(companyRatios, industryAvg, "interest_coverage", "interest_coverage_times", TRUE)

Comparisons(companyRatios, industryAvg) ==
    PushIf(companyRatios, industryAvg, "current_ratio", "current_ratio_pct", TRUE)
    \o PushIf(companyRatios, industryAvg, "quick_ratio", "quick_ratio_pct", TRUE)
    \o PushIf(companyRatios, industryAvg, "debt_ratio", "debt_ratio_pct", FALSE)
    \o PushIf(companyRatios, industryAvg, "equity_ratio", "equity_ratio_pct", TRUE)
    \o PushIf(companyRatios, industryAvg, "operating_margin", "operating_margin_pct", TRUE)
    \o PushIf(companyRatios, industryAvg, "net_margin", "net_margin_pct", TRUE)
    \o PushIf(companyRatios, industryAvg, "roa", "roa_pct", TRUE)
    \o PushIf(companyRatios, industryAvg, "roe", "roe_pct", TRUE)
    \o PushIf(companyRatios, industryAvg, "asset_turnover", "asset_turnover_times", TRUE)
    \o PushIf(companyRatios, industryAvg, "inventory_turnover", "inventory_turnover_times", TRUE)
    \o PushIf(companyRatios, industryAvg, "receivable_turnover", "receivable_turnover_times", TRUE)
    \o PushIf(companyRatios, industryAvg, "interest_coverage", "interest_coverage_times", TRUE)

compareRatios(companyRatios, industryAvg, companyName, industryNm, year, firmSizeType) ==
    LET comparisons == Comparisons(companyRatios, industryAvg)
        riskLevel == calculateRiskLevel(comparisons)
        overallComment == generateOverallComment(comparisons, riskLevel)
        recommendations == generateRecommendations(comparisons)
    IN  [company_name      |-> companyName,
         industry_name     |-> industryNm,
         year              |-> year,
         firm_size_type    |-> firmSizeType,
         calculated_ratios |-> companyRatios,
         industry_averages |-> extractIndustryAverages(industryAvg),
         comparisons       |-> comparisons,
         risk_level        |-> riskLevel,
         overall_comment   |-> overallComment,
         recommendations   |-> recommendations]

(* the 6-ratio revision *)

RecommendationsForBasic(name) ==
    (IF name = "current_ratio" THEN <<"improve_current_ratio">> ELSE <<>>)
    \o (IF name = "debt_ratio" THEN <<"improve_debt_ratio">> ELSE <<>>)
    \o (IF name = "operating_margin" THEN <<"improve_profitability">> ELSE <<>>)
    \o (IF name = "roa" \/ name = "roe" THEN <<"raise_profitability">> ELSE <<>>)
    \o (IF name = "equity_ratio" THEN <<"strengthen_equity">> ELSE <<>>)

generateRecommendationsBasic(comparisons) ==
    LET dangerRatios == DangerRatios(comparisons)
        recommendations ==
            Concat([i \in DOMAIN dangerRatios |->
                        RecommendationsForBasic(dangerRatios[i].ratio_name)])
    IN  IF Len(recommendations) = 0 THEN <<"maintain">>
        ELSE recommendations

ComparisonsBasic(companyRatios, industryAvg) ==
    PushIf(companyRatios, industryAvg, "current_ratio", "current_ratio", TRUE)
    \o PushIf(companyRatios, industryAvg, "debt_ratio", "debt_ratio", FALSE)
    \o PushIf(companyRatios, industryAvg, "equity_ratio", "equity_ratio", TRUE)
    \o PushIf(companyRatios, industryAvg, "operating_margin", "operating_margin", TRUE)
    \o PushIf(companyRatios, industryAvg, "roa", "roa", TRUE)
    \o PushIf(companyRatios, industryAvg, "roe", "roe", TRUE)

compareRatiosBasic(companyRatios, industryAvg, companyName, industryNm, year, firmSizeType) ==
    LET comparisons == ComparisonsBasic(companyRatios, industryAvg)
        riskLevel == calculateRiskLevel(comparisons)
        overallComment == generateOverallComment(comparisons, riskLevel)
        recommendations == generateRecommendationsBasic(comparisons)
    IN  [company_name      |-> companyName,
         industry_name     |-> industryNm,
         year              |-> year,
         firm_size_type    |-> firmSizeType,
         calculated_ratios |-> companyRatios,
         industry_averages |-> extractIndustryAverages(industryAvg),
         comparisons       |-> comparisons,
         risk_level        |-> riskLevel,
         overall_comment   |-> overallComment,
         recommendations   |-> recommendations]

----------------------------------------------------------------------------
(* POST /api/diagnose, from the benchmark row on: calculate, round, compare *)

\* the revision of utils/diagnosis that the build resolves './utils/diagnosis' to
compareRatiosOf(module, companyRatios, industryAvg, companyName, industryNm, year, firmSizeType) ==
    IF module = "twelve"
    THEN compareRatios(companyRatios, industryAvg, companyName, industryNm, year, firmSizeType)
    ELSE compareRatiosBasic(companyRatios, industryAvg, companyName, industryNm, year, firmSizeType)

Diagnose ==
    /\ pc = "start"
    /\ LET calculatedRatios == calculateFinancialRatios(financials)
           roundedRatios == roundAllRatios(calculatedRatios)
       IN  diagnosis' = compareRatiosOf(diagnosisModule, roundedRatios, sinboResult,
                                        financials.company_name, industryName,
                                        financials.year, financials.firm_size_type)
    /\ pc' = "done"
    /\ UNCHANGED <<diagnosisModule, financials, sinboResult, industryName, args, ret, calls, db,
                 log, now, issued>>

\* a comparisons array shared by all calls instead of one created per call
DiagnosisOfSharedComparisons(module, f, row, industryNm) ==
    LET d == compareRatiosOf(module, roundAllRatios(calculateFinancialRatios(f)), row,
                             f.company_name, industryNm, f.year, f.firm_size_type)
    IN  IF calls = <<>> THEN d
        ELSE [d EXCEPT !.comparisons = calls[Len(calls)].diagnosis.comparisons \o @]

\* lines 69-81: the diagnosis of one request against the row found for it
DiagnosisOf(module, f, row, industryNm) ==
    compareRatiosOf(module, roundAllRatios(calculateFinancialRatios(f)), row,
                    f.company_name, industryNm, f.year, f.firm_size_type)

(* Requests.  A request supplies at most MaxSupplied of the twelve figures,   *)
(* each an amount of Amounts (0 is an amount a user may type); the form       *)
(* leaves a blank figure out of the body.                                     *)

MaxSupplied == 3

Amounts == {-1, 0, 3, 8}

SuppliedSets == {S \in SUBSET FinancialFields : Cardinality(S) <= MaxSupplied}

Identity ==
    [company_name |-> "acme", industry_code |-> "C10", firm_size_type |-> "audited",
     year |-> 2023]

\* the request body in which the figures of S carry the amounts f
Request(S, f) ==
    Identity @@ [k \in FinancialFields |-> IF k \in S THEN Num(f[k]) ELSE Undefined]

(* Benchmark rows of the sinbo_ratios table for the request's key.  The      *)
(* columns are REAL and nullable, so a row may carry more than two decimals, *)
(* a NULL, a zero or a negative average.                                     *)
RowKey ==
    [industry_code |-> "C10", firm_size_type |-> "audited", year |-> 2023, valid_yn |-> "Y"]

SinboRows ==
    { RowKey @@
      [current_ratio |-> Num(250),           quick_ratio |-> Num(100),
       debt_ratio |-> Norm(37125, 1000),     equity_ratio |-> Norm(33375, 1000),
       operating_margin |-> Norm(3409, 100), net_margin |-> Norm(125, 10),
       roa |-> Num(100),                     roe |-> Num(300),
       asset_turnover |-> Norm(375, 1000),   inventory_turnover |-> Norm(25, 10),
       receivable_turnover |-> Num(1),       interest_coverage |-> Norm(267, 100)],
      RowKey @@
      [current_ratio |-> Null,               quick_ratio |-> Zero,
       debt_ratio |-> Norm(-3333, 100),      equity_ratio |-> Num(100),
       operating_margin |-> Norm(-125, 10),  net_margin |-> Null,
       roa |-> Zero,                         roe |-> Norm(375, 10),
       asset_turnover |-> Num(1),            inventory_turnover |-> Null,
       receivable_turnover |-> Num(-3),      interest_coverage |-> Norm(-125, 1000)] }

DiagnosisModules == {"twelve", "six"}

Init ==
    /\ pc = "start"
    /\ diagnosisModule \in DiagnosisModules
    /\ \E S \in SuppliedSets : \E f \in [S -> Amounts] : financials = Request(S, f)
    /\ sinboResult \in SinboRows
    /\ industryName = "food"
    /\ diagnosis = Undefined
    /\ args = Undefined
    /\ ret = Undefined
    /\ calls = <<>>
    /\ log = <<>>
    /\ now = 0
    /\ issued = {}
    /\ db = Undefined

Next == Diagnose

Spec == Init /\ [][Next]_vars

(* Benchmarks.  One complete financial statement is diagnosed against every  *)
(* benchmark row that carries an average for at most MaxCompared ratios, the *)
(* average being half, the same as, or twice the company's rounded ratio.    *)

MaxCompared == 3

CompleteStatement ==
    Identity @@
    [sales |-> Num(5000), current_assets |-> Num(2000), current_liabilities |-> Num(1500),
     quick_assets |-> Undefined, total_assets |-> Num(4000), total_liabilities |-> Num(2500),
     equity |-> Num(1500), operating_income |-> Num(400), net_income |-> Num(250),
     inventory |-> Num(500), receivables |-> Num(800), interest_expense |-> Num(100)]

Levels == {<<1, 2>>, <<1, 1>>, <<2, 1>>}

ComparedSets == {S \in SUBSET RatioSet : Cardinality(S) <= MaxCompared}

CompleteRatios == roundAllRatios(calculateFinancialRatios(CompleteStatement))

\* the row whose averages are the company's ratios scaled by the levels l
BenchmarkRow(S, l) ==
    RowKey @@ [k \in RatioSet |-> IF k \in S THEN RMul(CompleteRatios[k], l[k]) ELSE Null]

InitBenchmarks ==
    /\ pc = "start"
    /\ diagnosisModule \in DiagnosisModules
    /\ financials = CompleteStatement
    /\ \E S \in ComparedSets : \E l \in [S -> Levels] : sinboResult = BenchmarkRow(S, l)
    /\ industryName = "food"
    /\ diagnosis = Undefined
    /\ args = Undefined
    /\ ret = Undefined
    /\ calls = <<>>
    /\ log = <<>>
    /\ now = 0
    /\ issued = {}
    /\ db = Undefined

SpecBenchmarks == InitBenchmarks /\ [][Next]_vars

(* Quick assets.  The four figures quick_ratio reads - quick_assets,          *)
(* current_assets, inventory, current_liabilities - are each left out or     *)
(* sent as an amount from -1 to MaxQuickAmount; nothing else is supplied.    *)

MaxQuickAmount == 3

QuickFields == {"quick_assets", "current_assets", "inventory", "current_liabilities"}

QuickAmounts == {Undefined} \cup {Num(a) : a \in (-1)..MaxQuickAmount}

InitQuick ==
    /\ pc = "start"
    /\ diagnosisModule \in DiagnosisModules
    /\ \E q \in [QuickFields -> QuickAmounts] :
          financials = Identity @@ [k \in FinancialFields |->
                                       IF k \in QuickFields THEN q[k] ELSE Undefined]
    /\ sinboResult \in SinboRows
    /\ industryName = "food"
    /\ diagnosis = Undefined
    /\ args = Undefined
    /\ ret = Undefined
    /\ calls = <<>>
    /\ log = <<>>
    /\ now = 0
    /\ issued = {}
    /\ db = Undefined

SpecQuick == InitQuick /\ [][Next]_vars

(* Repeated diagnoses.  One isolate serves up to MaxCalls requests in turn,  *)
(* each a statement of RepeatStatements against a row of RepeatRows.         *)

MaxCalls == 3

RepeatStatements ==
    {CompleteStatement,
     [CompleteStatement EXCEPT !.net_income = Num(-250), !.inventory = Undefined,
                               !.interest_expense = Zero]}

RepeatRows ==
    SinboRows \cup {BenchmarkRow({"current_ratio", "debt_ratio", "roe"},
                                 [k \in {"current_ratio", "debt_ratio", "roe"} |-> <<2, 1>>])}

InitRepeat ==
    /\ pc = "start"
    /\ diagnosisModule \in DiagnosisModules
    /\ financials = Undefined
    /\ sinboResult = Undefined
    /\ industryName = "food"
    /\ diagnosis = Undefined
    /\ args = Undefined
    /\ ret = Undefined
    /\ calls = <<>>
    /\ log = <<>>
    /\ now = 0
    /\ issued = {}
    /\ db = Undefined

DiagnoseNext ==
    /\ Len(calls) < MaxCalls
    /\ \E f \in RepeatStatements, row \in RepeatRows :
          /\ financials' = f
          /\ sinboResult' = row
          /\ diagnosis' = DiagnosisOf(diagnosisModule, f, row, industryName)
          /\ calls' = Append(calls, [financials |-> f, sinboResult |-> row,
                                    diagnosis |-> diagnosis'])
    /\ pc' = "done"
    /\ UNCHANGED <<diagnosisModule, industryName, args, ret, db, log, now, issued>>

SpecRepeat == InitRepeat /\ [][DiagnoseNext]_vars

----------------------------------------------------------------------------
(* JSON.  A JSON text is kept as its syntax tree: an object is a function    *)
(* from its keys, an array a sequence, a number its decimal literal (sign,   *)
(* digits, number of digits after the point), a string itself.               *)

MaxDecimals == 6

JsonNull == [type |-> "null"]

JsonString(s) == [type |-> "string", value |-> s]

\* the number of digits after the point in the decimal literal of x
Decimals(x) ==
    CHOOSE k \in 0..MaxDecimals :
        /\ (10 ^ k) % x[2] = 0
        /\ \A j \in 0..(k - 1) : (10 ^ j) % x[2] # 0

\* the literal rounded to two decimals, as toFixed(2) prints it
JsonNumberTwoDecimals(x) ==
    IF ~IsFinite(x) THEN JsonNull
    ELSE [type |-> "number", negative |-> x[1] < 0,
          digits |-> MathRound(RMul(RAbs(x), Hundred)), scale |-> 2]

\* JSON.stringify of a number: the decimal literal; Infinity and NaN become null
JsonNumber(x) ==
    IF ~IsFinite(x) THEN JsonNull
    ELSE LET k == Decimals(x)
         IN  [type |-> "number", negative |-> x[1] < 0,
              digits |-> Abs(x[1]) * ((10 ^ k) \div x[2]), scale |-> k]

\* a number | null value
JsonNullable(v) == IF v = Null THEN JsonNull ELSE JsonNumber(v)

\* JSON.stringify of an object: a key whose value is undefined is left out
JsonRatios(obj) ==
    [k \in {key \in DOMAIN obj : obj[key] # Undefined} |-> JsonNullable(obj[k])]

JsonComparison(c) ==
    [ratio_name     |-> JsonString(c.ratio_name),
     ratio_name_kr  |-> JsonString(c.ratio_name_kr),
     company_value  |-> JsonNumber(c.company_value),
     industry_avg   |-> JsonNumber(c.industry_avg),
     difference_pct |-> JsonNumber(c.difference_pct),
     status         |-> JsonString(c.status),
     comment        |-> JsonString(c.comment)]

\* JSON.stringify(diagnosis), c.json(diagnosis)
JsonStringify(d) ==
    [company_name      |-> JsonString(d.company_name),
     industry_name     |-> JsonString(d.industry_name),
     year              |-> JsonNumber(Num(d.year)),
     firm_size_type    |-> JsonString(d.firm_size_type),
     calculated_ratios |-> JsonRatios(d.calculated_ratios),
     industry_averages |-> JsonRatios(d.industry_averages),
     comparisons       |-> [i \in DOMAIN d.comparisons |-> JsonComparison(d.comparisons[i])],
     risk_level        |-> JsonString(d.risk_level),
     overall_comment   |-> JsonString(d.overall_comment),
     recommendations   |-> [i \in DOMAIN d.recommendations |->
                               JsonString(d.recommendations[i])]]

\* JSON.parse of a number literal or null
ParseNumber(t) ==
    IF t.type = "null" THEN Null
    ELSE Norm(IF t.negative THEN -t.digits ELSE t.digits, 10 ^ t.scale)

ParseComparison(t) ==
    [ratio_name     |-> t.ratio_name.value,
     ratio_name_kr  |-> t.ratio_name_kr.value,
     company_value  |-> ParseNumber(t.company_value),
     industry_avg   |-> ParseNumber(t.industry_avg),
     difference_pct |-> ParseNumber(t.difference_pct),
     status         |-> t.status.value,
     comment        |-> t.comment.value]

\* JSON.parse of a serialized Diagnosis Result
JsonParse(t) ==
    [company_name      |-> t.company_name.value,
     industry_name     |-> t.industry_name.value,
     year              |-> ParseNumber(t.year)[1],
     firm_size_type    |-> t.firm_size_type.value,
     calculated_ratios |-> [k \in DOMAIN t.calculated_ratios |->
                               ParseNumber(t.calculated_ratios[k])],
     industry_averages |-> [k \in DOMAIN t.industry_averages |->
                               ParseNumber(t.industry_averages[k])],
     comparisons       |-> [i \in DOMAIN t.comparisons |-> ParseComparison(t.comparisons[i])],
     risk_level        |-> t.risk_level.value,
     overall_comment   |-> t.overall_comment.value,
     recommendations   |-> [i \in DOMAIN t.recommendations |-> t.recommendations[i].value]]

----------------------------------------------------------------------------
(* POST /api/diagnose, the whole handler *)

\* the request body: text that is not JSON, the JSON text null, or a JSON object
MalformedBody == [kind |-> "malformed"]
NullBody == [kind |-> "null"]
ObjectBody(json) == [kind |-> "object", json |-> json]

\* undefined, as the value of a field whose other values are strings
UndefinedText == "undefined"

\* the test failing for the empty string only
MissingIfEmpty(v) == v = ""

\* !x for a string | undefined identity field, and for the year
Missing(v) == v = UndefinedText \/ v = ""
MissingYear(v) == v = 0

\* x || null
OrNull(v) == IF Truthy(v) THEN v ELSE Null

\* SELECT name FROM industry_codes WHERE code = ?
IndustryRows(code) == {r \in db.industry_codes : r.code = code}

\* the lookup taking a row whatever its validity flag
MatchingRowsAnyValidity(f) ==
    {r \in db.sinbo_ratios :
        /\ r.industry_code = f.industry_code
        /\ r.year = f.year
        /\ r.firm_size_type = f.firm_size_type}

\* SELECT * FROM sinbo_ratios WHERE industry_code = ? AND year = ? AND
\* firm_size_type = ? AND valid_yn = 'Y'
MatchingRows(f) ==
    {r \in db.sinbo_ratios :
        /\ r.industry_code = f.industry_code
        /\ r.year = f.year
        /\ r.firm_size_type = f.firm_size_type
        /\ r.valid_yn = "Y"}

\* the figures the INSERT binds as they are; the other bound figures go through || null
DirectFigures ==
    {"sales", "current_assets", "current_liabilities", "total_assets", "total_liabilities",
     "equity", "operating_income", "net_income"}

\* D1 is not part of the sources: binding undefined either raises a type error
\* or stores NULL
UndefinedBinds == {"throws", "null"}

\* the statement of the handler at which the data store fails, if any
Faults == {"none", "industry_lookup", "benchmark_lookup", "insert"}

\* the row storing a fixed risk tier
HistoryRowFixedRisk(f, roundedRatios, d) ==
    [company_name        |-> f.company_name,
     industry_code       |-> f.industry_code,
     firm_size_type      |-> f.firm_size_type,
     year                |-> f.year,
     diagnosis_result    |-> JsonStringify(d),
     risk_level          |-> "LOW"]

\* the row storing the ratios as calculated, before rounding
HistoryRowUnroundedRatios(f, roundedRatios, d) ==
    LET calculatedRatios == calculateFinancialRatios(f)
    IN  [company_name        |-> f.company_name,
         calc_current_ratio  |-> OrNull(Get(calculatedRatios, "current_ratio")),
         calc_debt_ratio     |-> OrNull(Get(calculatedRatios, "debt_ratio")),
         calc_equity_ratio   |-> OrNull(Get(calculatedRatios, "equity_ratio")),
         calc_operating_margin |-> OrNull(Get(calculatedRatios, "operating_margin")),
         calc_roa            |-> OrNull(Get(calculatedRatios, "roa")),
         calc_roe            |-> OrNull(Get(calculatedRatios, "roe")),
         diagnosis_result    |-> JsonStringify(d),
         risk_level          |-> d.risk_level]

\* the row of the INSERT INTO diagnosis_history
HistoryRow(f, roundedRatios, d) ==
    [company_name        |-> f.company_name,
     industry_code       |-> f.industry_code,
     firm_size_type      |-> f.firm_size_type,
     year                |-> f.year,
     sales               |-> IF f.sales = Undefined THEN Null ELSE f.sales,
     current_assets      |-> IF f.current_assets = Undefined THEN Null ELSE f.current_assets,
     current_liabilities |-> IF f.current_liabilities = Undefined THEN Null
                             ELSE f.current_liabilities,
     total_assets        |-> IF f.total_assets = Undefined THEN Null ELSE f.total_assets,
     total_liabilities   |-> IF f.total_liabilities = Undefined THEN Null
                             ELSE f.total_liabilities,
     equity              |-> IF f.equity = Undefined THEN Null ELSE f.equity,
     operating_income    |-> IF f.operating_income = Undefined THEN Null
                             ELSE f.operating_income,
     net_income          |-> IF f.net_income = Undefined THEN Null ELSE f.net_income,
     inventory           |-> OrNull(f.inventory),
     receivables         |-> OrNull(f.receivables),
     interest_expense    |-> OrNull(f.interest_expense),
     calc_current_ratio  |-> OrNull(Get(roundedRatios, "current_ratio")),
     calc_debt_ratio     |-> OrNull(Get(roundedRatios, "debt_ratio")),
     calc_equity_ratio   |-> OrNull(Get(roundedRatios, "equity_ratio")),
     calc_operating_margin |-> OrNull(Get(roundedRatios, "operating_margin")),
     calc_roa            |-> OrNull(Get(roundedRatios, "roa")),
     calc_roe            |-> OrNull(Get(roundedRatios, "roe")),
     diagnosis_result    |-> JsonStringify(d),
     risk_level          |-> d.risk_level,
     contact_email       |-> Null,
     contact_phone       |-> Null]

\* c.json(body, status)
Respond(status, body) ==
    /\ ret' = [status |-> status, body |-> body]
    /\ pc' = "done"

\* the catch block answering without a status argument
CaughtWithoutStatus(error) == Respond(200, [error |-> "diagnosis_failed", details |-> error])

\* the catch block
Caught(error) == Respond(500, [error |-> "diagnosis_failed", details |-> error])

PostDiagnose ==
    /\ pc = "start"
    /\ UNCHANGED <<diagnosisModule, args, calls, log, now, issued>>
    /\ \E fault \in Faults, undefinedBind \in UndefinedBinds :
        \/ /\ args.kind = "malformed"
           /\ Caught("SyntaxError")
           /\ UNCHANGED <<financials, industryName, sinboResult, diagnosis, db>>
        \/ /\ args.kind = "null"
           /\ Caught("TypeError")
           /\ UNCHANGED <<financials, industryName, sinboResult, diagnosis, db>>
        \/ /\ args.kind = "object"
           /\ financials' = args.json
           /\ LET f == args.json
              IN  \/ /\ Missing(f.company_name) \/ Missing(f.industry_code) \/ MissingYear(f.year)
                     /\ Respond(400, [error |-> "missing_required"])
                     /\ UNCHANGED <<industryName, sinboResult, diagnosis, db>>
                  \/ /\ ~(Missing(f.company_name) \/ Missing(f.industry_code) \/ MissingYear(f.year))
                     /\ fault = "industry_lookup"
                     /\ Caught("D1_ERROR")
                     /\ UNCHANGED <<industryName, sinboResult, diagnosis, db>>
                  \/ /\ ~(Missing(f.company_name) \/ Missing(f.industry_code) \/ MissingYear(f.year))
                     /\ fault # "industry_lookup"
                     /\ IndustryRows(f.industry_code) = {}
                     /\ Respond(400, [error |-> "invalid_industry_code"])
                     /\ UNCHANGED <<industryName, sinboResult, diagnosis, db>>
                  \/ /\ ~(Missing(f.company_name) \/ Missing(f.industry_code) \/ MissingYear(f.year))
                     /\ fault # "industry_lookup"
                     /\ \E industryResult \in IndustryRows(f.industry_code) :
                          /\ industryName' = industryResult.name
                          /\ \/ /\ f.firm_size_type = UndefinedText
                                /\ undefinedBind = "throws"
                                /\ Caught("D1_TYPE_ERROR")
                                /\ UNCHANGED <<sinboResult, diagnosis, db>>
                             \/ /\ ~(f.firm_size_type = UndefinedText /\ undefinedBind = "throws")
                                /\ fault = "benchmark_lookup"
                                /\ Caught("D1_ERROR")
                                /\ UNCHANGED <<sinboResult, diagnosis, db>>
                             \/ /\ ~(f.firm_size_type = UndefinedText /\ undefinedBind = "throws")
                                /\ fault # "benchmark_lookup"
                                /\ MatchingRows(f) = {}
                                /\ Respond(404, [error |-> "no_benchmark"])
                                /\ UNCHANGED <<sinboResult, diagnosis, db>>
                             \/ /\ fault # "benchmark_lookup"
                                /\ \E row \in MatchingRows(f) :
                                     LET calculatedRatios == calculateFinancialRatios(f)
                                         roundedRatios == roundAllRatios(calculatedRatios)
                                         d == DiagnosisOf(diagnosisModule, f, row,
                                                          industryResult.name)
                                     IN  /\ sinboResult' = row
                                         /\ diagnosis' = d
                                         /\ \/ /\ undefinedBind = "throws"
                                               /\ \E k \in DirectFigures : f[k] = Undefined
                                               /\ Caught("D1_TYPE_ERROR")
                                               /\ UNCHANGED db
                                            \/ /\ ~(/\ undefinedBind = "throws"
                                                    /\ \E k \in DirectFigures : f[k] = Undefined)
                                               /\ fault = "insert"
                                               /\ Caught("D1_ERROR")
                                               /\ UNCHANGED db
                                            \/ /\ ~(/\ undefinedBind = "throws"
                                                    /\ \E k \in DirectFigures : f[k] = Undefined)
                                               /\ fault # "insert"
                                               /\ db' = [db EXCEPT !.diagnosis_history =
                                                           Append(@, HistoryRow(f, roundedRatios, d))]
                                               /\ Respond(200, JsonStringify(d))

(* Requests and data stores of the handler.  The body is malformed, null or  *)
(* an object whose identity fields are present, wrong or missing and whose   *)
(* figures are those of a statement of HandlerStatements; sinbo_ratios holds *)
(* at most MaxRows of the rows of CandidateRows.                             *)

MaxRows == 2

\* a field left out of the body is undefined; a year left out fails the same test as 0
CompanyNames == {"acme", UndefinedText}
IndustryCodes == {"C10", "Z99", UndefinedText}
Years == {2023, 2022, 0}
FirmSizeTypes == {"audited", "small", UndefinedText}

\* request statements: those of RepeatStatements and one that leaves
\* operating_income out, a figure the INSERT binds without || null
\* and one whose operating margin, 0.002 %, rounds to 0
HandlerStatements ==
    RepeatStatements
    \cup {[CompleteStatement EXCEPT !.operating_income = Undefined],
          [CompleteStatement EXCEPT !.operating_income = Num(1), !.sales = Num(50000)]}

Bodies ==
    {MalformedBody, NullBody}
    \cup {ObjectBody([s EXCEPT !.company_name = n, !.industry_code = c, !.year = y,
                               !.firm_size_type = t]) :
            s \in HandlerStatements, n \in CompanyNames, c \in IndustryCodes,
            y \in Years, t \in FirmSizeTypes}

IndustryCodeRows == {[code |-> "C10", name |-> "food"], [code |-> "C20", name |-> "metal"]}

\* the same key valid and withdrawn, another year and size, and a second valid row
FirstRow == CHOOSE r \in SinboRows : r.roa = Num(100)
SecondRow == CHOOSE r \in SinboRows : r.roa = Zero

CandidateRows ==
    {[id |-> 1] @@ FirstRow,
     [id |-> 2] @@ SecondRow,
     [id |-> 3, valid_yn |-> "N", current_ratio |-> Num(50)] @@ FirstRow,
     [id |-> 4, year |-> 2022, firm_size_type |-> "small"] @@ FirstRow}

InitHandler ==
    /\ pc = "start"
    /\ diagnosisModule \in DiagnosisModules
    /\ args \in Bodies
    /\ \E rows \in SUBSET CandidateRows :
          /\ Cardinality(rows) <= MaxRows
          /\ db = [industry_codes |-> IndustryCodeRows, sinbo_ratios |-> rows,
                   diagnosis_history |-> <<>>]
    /\ financials = Undefined
    /\ sinboResult = Undefined
    /\ industryName = Undefined
    /\ diagnosis = Undefined
    /\ ret = Undefined
    /\ calls = <<>>
    /\ log = <<>>
    /\ now = 0
    /\ issued = {}

SpecHandler == InitHandler /\ [][PostDiagnose]_vars

----------------------------------------------------------------------------
(* POST /api/diagnose, statement by statement.  The handler is an async      *)
(* function: it runs without interruption up to an await on the data store,  *)
(* and other requests may run while it waits.  Each action below is one      *)
(* data-store statement together with the synchronous code that follows its  *)
(* result.  Every variable of the handler is a function of the request.      *)

\* c.json(body, status) of request r
RespondTo(r, status, body) ==
    /\ ret' = [ret EXCEPT ![r] = [status |-> status, body |-> body]]
    /\ pc' = [pc EXCEPT ![r] = "done"]

\* the catch block of request r
CaughtIn(r, error) == RespondTo(r, 500, [error |-> "diagnosis_failed", details |-> error])

\* the statements of request r so far, and those executed now
Logged(r, statements) == log' = [log EXCEPT ![r] = @ \o statements]

\* the row replacing the rows the table holds
InsertedOverwriting(history, row) == <<row>>

\* INSERT INTO diagnosis_history
Inserted(history, row) == Append(history, row)

\* await c.req.json() and the input validation
ParseAndValidate(r) ==
    /\ pc[r] = "start"
    /\ UNCHANGED <<diagnosisModule, args, calls, db, industryName, sinboResult, diagnosis,
                   now, issued>>
    /\ \/ /\ args[r].kind = "malformed"
          /\ CaughtIn(r, "SyntaxError")
          /\ Logged(r, <<"parse">>)
          /\ UNCHANGED financials
       \/ /\ args[r].kind = "null"
          /\ CaughtIn(r, "TypeError")
          /\ Logged(r, <<"parse", "validate">>)
          /\ UNCHANGED financials
       \/ /\ args[r].kind = "object"
          /\ financials' = [financials EXCEPT ![r] = args[r].json]
          /\ Logged(r, <<"parse", "validate">>)
          /\ LET f == args[r].json
             IN  IF Missing(f.company_name) \/ Missing(f.industry_code) \/ MissingYear(f.year)
                 THEN RespondTo(r, 400, [error |-> "missing_required"])
                 ELSE /\ pc' = [pc EXCEPT ![r] = "industry"]
                      /\ UNCHANGED ret

\* SELECT name FROM industry_codes WHERE code = ? and the test of its result
SelectIndustry(r) ==
    /\ pc[r] = "industry"
    /\ UNCHANGED <<diagnosisModule, args, calls, db, financials, sinboResult, diagnosis,
                   now, issued>>
    /\ Logged(r, <<"industry_lookup">>)
    /\ \/ /\ CaughtIn(r, "D1_ERROR")
          /\ UNCHANGED industryName
       \/ /\ IndustryRows(financials[r].industry_code) = {}
          /\ RespondTo(r, 400, [error |-> "invalid_industry_code"])
          /\ UNCHANGED industryName
       \/ \E industryResult \in IndustryRows(financials[r].industry_code) :
             /\ industryName' = [industryName EXCEPT ![r] = industryResult.name]
             /\ pc' = [pc EXCEPT ![r] = "benchmark"]
             /\ UNCHANGED ret

\* SELECT * FROM sinbo_ratios ..., the test of its result, and the diagnosis
SelectBenchmark(r) ==
    /\ pc[r] = "benchmark"
    /\ UNCHANGED <<diagnosisModule, args, calls, db, financials, industryName, now, issued>>
    /\ LET f == financials[r]
       IN  \/ /\ f.firm_size_type = UndefinedText
              /\ CaughtIn(r, "D1_TYPE_ERROR")
              /\ Logged(r, <<"benchmark_lookup">>)
              /\ UNCHANGED <<sinboResult, diagnosis>>
           \/ /\ CaughtIn(r, "D1_ERROR")
              /\ Logged(r, <<"benchmark_lookup">>)
              /\ UNCHANGED <<sinboResult, diagnosis>>
           \/ /\ MatchingRows(f) = {}
              /\ RespondTo(r, 404, [error |-> "no_benchmark"])
              /\ Logged(r, <<"benchmark_lookup">>)
              /\ UNCHANGED <<sinboResult, diagnosis>>
           \/ \E row \in MatchingRows(f) :
                 /\ sinboResult' = [sinboResult EXCEPT ![r] = row]
                 /\ diagnosis' = [diagnosis EXCEPT ![r] =
                                     DiagnosisOf(diagnosisModule, f, row, industryName[r])]
                 /\ Logged(r, <<"benchmark_lookup", "compute">>)
                 /\ pc' = [pc EXCEPT ![r] = "insert"]
                 /\ UNCHANGED ret

\* INSERT INTO diagnosis_history ... and return c.json(diagnosis)
InsertHistory(r) ==
    /\ pc[r] = "insert"
    /\ UNCHANGED <<diagnosisModule, args, calls, financials, industryName, sinboResult,
                   diagnosis, now, issued>>
    /\ LET f == financials[r]
           roundedRatios == roundAllRatios(calculateFinancialRatios(f))
       IN  \/ /\ \E k \in DirectFigures : f[k] = Undefined
              /\ CaughtIn(r, "D1_TYPE_ERROR")
              /\ Logged(r, <<"insert">>)
              /\ UNCHANGED db
           \/ /\ CaughtIn(r, "D1_ERROR")
              /\ Logged(r, <<"insert">>)
              /\ UNCHANGED db
           \/ /\ db' = [db EXCEPT !.diagnosis_history =
                           Inserted(@, HistoryRow(f, roundedRatios, diagnosis[r]))]
              /\ RespondTo(r, 200, JsonStringify(diagnosis[r]))
              /\ Logged(r, <<"insert", "respond">>)

(* Concurrent requests.  MaxRequests requests are in flight at once, each    *)
(* with one of the bodies of ConcurrentBodies; sinbo_ratios holds the rows   *)
(* of CandidateRows, two of which match the key C10 / 2023 / audited.        *)

MaxRequests == 2

Requests == 1..MaxRequests

BodyOf(statement, name, code, year, size) ==
    ObjectBody([statement EXCEPT !.company_name = name, !.industry_code = code,
                                 !.year = year, !.firm_size_type = size])

ConcurrentBodies ==
    {MalformedBody,
     BodyOf(CompleteStatement, UndefinedText, "C10", 2023, "audited"),
     BodyOf(CompleteStatement, "acme", "Z99", 2023, "audited"),
     BodyOf(CompleteStatement, "acme", "C10", 2022, "audited"),
     BodyOf(CompleteStatement, "acme", "C10", 2023, "audited"),
     BodyOf([CompleteStatement EXCEPT !.net_income = Num(-250), !.inventory = Undefined],
            "bolt", "C10", 2022, "small")}

InitConcurrent ==
    /\ pc = [r \in Requests |-> "start"]
    /\ diagnosisModule \in DiagnosisModules
    /\ args \in [Requests -> ConcurrentBodies]
    /\ db = [industry_codes |-> IndustryCodeRows, sinbo_ratios |-> CandidateRows,
             diagnosis_history |-> <<>>]
    /\ financials = [r \in Requests |-> Undefined]
    /\ sinboResult = [r \in Requests |-> Undefined]
    /\ industryName = [r \in Requests |-> Undefined]
    /\ diagnosis = [r \in Requests |-> Undefined]
    /\ ret = [r \in Requests |-> Undefined]
    /\ log = [r \in Requests |-> <<>>]
    /\ calls = <<>>
    /\ now = 0
    /\ issued = {}

NextConcurrent ==
    \E r \in Requests :
        \/ ParseAndValidate(r)
        \/ SelectIndustry(r)
        \/ SelectBenchmark(r)
        \/ InsertHistory(r)

SpecConcurrent == InitConcurrent /\ [][NextConcurrent]_vars

----------------------------------------------------------------------------
(* The admin API: POST /api/admin/login, the adminAuth middleware and the    *)
(* three handlers behind it.  A text is the sequence of its characters; a    *)
(* token is named by the text its base64 form decodes to, that text split at *)
(* ':' into parts, and a part is a decimal numeral or other text.  Buffer    *)
(* restores the text it encoded.                                             *)

Digits(n) == [kind |-> "digits", value |-> n]
OtherText == [kind |-> "text"]
Absent == [kind |-> "absent"]

NaN == [nan |-> TRUE]
Number(n) == [nan |-> FALSE, value |-> n]

\* parseInt(part); parseInt(undefined) and parseInt of text without a leading numeral are NaN
ParseInt(part) == IF part.kind = "digits" THEN Number(part.value) ELSE NaN

\* Date.now() - x
Since(time, x) == IF x.nan THEN NaN ELSE Number(time - x.value)

\* x > n; a comparison with NaN is false
GreaterThan(x, n) == ~x.nan /\ x.value > n

\* 24 * 60 * 60 * 1000
TokenLifetime == 24 * 60 * 60 * 1000

\* Buffer.from(`${admin.id}:${Date.now()}`).toString('base64')
Token(adminId, time) == [base64 |-> <<Digits(adminId), Digits(time)>>]

\* Buffer.from(token, 'base64').toString().split(':')
DecodedParts(token) == token.base64

NoHeader == [kind |-> "none"]
BasicHeader == [kind |-> "basic"]
Bearer(token) == [kind |-> "bearer", token |-> token]

\* the age test rejecting a token from the age of 24 hours on
adminAuthExclusiveAge(authHeader, time) ==
    IF authHeader.kind # "bearer" THEN "auth_required"
    ELSE LET parts == DecodedParts(authHeader.token)
             timestamp == IF Len(parts) >= 2 THEN parts[2] ELSE Absent
             tokenAge == Since(time, ParseInt(timestamp))
         IN  IF GreaterThan(tokenAge, TokenLifetime - 1) THEN "token_expired" ELSE "next"

\* adminAuth: the error it answers 401 with, or "next" when it calls the handler
adminAuth(authHeader, time) ==
    IF authHeader.kind # "bearer" THEN "auth_required"
    ELSE LET parts == DecodedParts(authHeader.token)
             timestamp == IF Len(parts) >= 2 THEN parts[2] ELSE Absent
             tokenAge == Since(time, ParseInt(timestamp))
         IN  IF GreaterThan(tokenAge, TokenLifetime) THEN "token_expired" ELSE "next"

\* crypto.subtle.digest('SHA-256', ...) in hexadecimal: one digest per password
Sha256(password) == [algorithm |-> "sha256", of |-> password]

\* SELECT ... FROM admin_users WHERE username = ? AND password_hash = ?
AdminRows(username, passwordHash) ==
    {u \in db.admin_users : u.username = username /\ u.password_hash = passwordHash}

\* POST /api/admin/login, the whole handler
PostAdminLogin(bodies) ==
    /\ \E body \in bodies, fault \in {"none", "select", "update"} :
          /\ args' = [endpoint |-> "login", body |-> body, time |-> now]
          /\ \/ /\ body.kind = "malformed"
                /\ ret' = [status |-> 500, body |-> [error |-> "login_failed"]]
                /\ UNCHANGED <<db, issued>>
             \/ /\ body.kind = "object"
                /\ Missing(body.json.username) \/ Missing(body.json.password)
                /\ ret' = [status |-> 400, body |-> [error |-> "credentials_required"]]
                /\ UNCHANGED <<db, issued>>
             \/ /\ body.kind = "object"
                /\ ~(Missing(body.json.username) \/ Missing(body.json.password))
                /\ fault = "select"
                /\ ret' = [status |-> 500, body |-> [error |-> "login_failed"]]
                /\ UNCHANGED <<db, issued>>
             \/ /\ body.kind = "object"
                /\ ~(Missing(body.json.username) \/ Missing(body.json.password))
                /\ fault # "select"
                /\ AdminRows(body.json.username, Sha256(body.json.password)) = {}
                /\ ret' = [status |-> 401, body |-> [error |-> "credentials_mismatch"]]
                /\ UNCHANGED <<db, issued>>
             \/ /\ body.kind = "object"
                /\ ~(Missing(body.json.username) \/ Missing(body.json.password))
                /\ fault # "select"
                /\ \E admin \in AdminRows(body.json.username, Sha256(body.json.password)) :
                      \/ /\ fault = "update"
                         /\ ret' = [status |-> 500, body |-> [error |-> "login_failed"]]
                         /\ UNCHANGED <<db, issued>>
                      \/ /\ fault = "none"
                         /\ db' = [db EXCEPT !.admin_users =
                                     {IF u.id = admin.id THEN [u EXCEPT !.last_login = now]
                                      ELSE u : u \in @}]
                         /\ ret' = [status |-> 200,
                                    body |-> [success |-> TRUE,
                                              token |-> Token(admin.id, now),
                                              admin |-> [id |-> admin.id,
                                                         username |-> admin.username,
                                                         full_name |-> admin.full_name,
                                                         email |-> admin.email]]]
                         /\ issued' = issued \cup {Token(admin.id, now)}
    /\ log' = <<"login">>
    /\ pc' = "done"
    /\ UNCHANGED <<diagnosisModule, financials, sinboResult, industryName, diagnosis, calls,
                   now>>

(* The handlers behind adminAuth.  created_at is the insertion time in       *)
(* milliseconds and DATE() its day; a date of the query string is a day.     *)

MillisecondsPerDay == 24 * 60 * 60 * 1000

DateOf(time) == time \div MillisecondsPerDay

NoDate == [kind |-> "absent"]
Date(day) == [kind |-> "date", day |-> day]

\* text LIKE pattern: % matches any run of characters, _ any one character;
\* NULL is like nothing
RECURSIVE Matches(_, _)
Matches(pattern, text) ==
    IF pattern = <<>> THEN text = <<>>
    ELSE IF Head(pattern) = "%"
    THEN Matches(Tail(pattern), text) \/ (text # <<>> /\ Matches(pattern, Tail(text)))
    ELSE /\ text # <<>>
         /\ Head(pattern) = "_" \/ Head(pattern) = Head(text)
         /\ Matches(Tail(pattern), Tail(text))

Like(text, pattern) == text # Null /\ Matches(pattern, text)

\* the WHERE clause of the page query
PageWhere(q, row) ==
    /\ q.search # <<>> =>
          LET searchParam == <<"%">> \o q.search \o <<"%">>
          IN  \/ Like(row.company_name, searchParam)
              \/ Like(row.contact_email, searchParam)
              \/ Like(row.contact_phone, searchParam)
    /\ ~Missing(q.industry) => row.industry_code = q.industry
    /\ q.startDate.kind = "date" => DateOf(row.created_at) >= q.startDate.day
    /\ q.endDate.kind = "date" => DateOf(row.created_at) <= q.endDate.day

\* the WHERE clause of the count query
CountWhere(q, row) ==
    /\ q.search # <<>> =>
          LET searchParam == <<"%">> \o q.search \o <<"%">>
          IN  \/ Like(row.company_name, searchParam)
              \/ Like(row.contact_email, searchParam)
              \/ Like(row.contact_phone, searchParam)
    /\ ~Missing(q.industry) => row.industry_code = q.industry
    /\ q.startDate.kind = "date" => DateOf(row.created_at) >= q.startDate.day
    /\ q.endDate.kind = "date" => DateOf(row.created_at) <= q.endDate.day

\* the rows of a table as a set
RowsOf(table) == {table[i] : i \in DOMAIN table}

\* ORDER BY created_at DESC: rows of equal created_at come in any order
OrderedByCreatedAtDesc(rows) ==
    {s \in [1..Cardinality(rows) -> rows] :
        /\ \A i, j \in DOMAIN s : i < j => s[i] # s[j] /\ s[i].created_at >= s[j].created_at}

\* LIMIT ? OFFSET ? as SQLite reads them: a negative LIMIT is no limit, a
\* negative OFFSET is 0
LimitOffset(s, limit, offset) ==
    LET skipped == IF offset < 0 THEN 0 ELSE IF offset > Len(s) THEN Len(s) ELSE offset
        last == IF limit < 0 \/ skipped + limit > Len(s) THEN Len(s) ELSE skipped + limit
    IN  [i \in 1..(last - skipped) |-> s[skipped + i]]

\* LEFT JOIN industry_codes ic ON dh.industry_code = ic.code: ic.name, or "NULL"
\* for the NULL of a code the table lacks
IndustryNameOf(code) ==
    IF IndustryRows(code) = {} THEN "NULL"
    ELSE (CHOOSE r \in IndustryRows(code) : TRUE).name

\* the columns the page query selects
ListedRow(row) ==
    [id |-> row.id, company_name |-> row.company_name, industry_code |-> row.industry_code,
     risk_level |-> row.risk_level, contact_email |-> row.contact_email,
     contact_phone |-> row.contact_phone, created_at |-> row.created_at,
     industry_name |-> IndustryNameOf(row.industry_code)]

\* limit = 100, offset = 0 for a parameter the query string lacks
OrDefault(part, default) == IF part.kind = "absent" THEN Digits(default) ELSE part

\* the responses of GET /api/admin/diagnoses, one per order of the equal rows
AdminDiagnoses(q) ==
    LET limit == ParseInt(OrDefault(q.limit, 100))
        offset == ParseInt(OrDefault(q.offset, 0))
        matching == {row \in RowsOf(db.diagnosis_history) : PageWhere(q, row)}
        total == Cardinality({row \in RowsOf(db.diagnosis_history) : CountWhere(q, row)})
    IN  IF limit.nan \/ offset.nan
        THEN {[status |-> 500, body |-> [error |-> "handler_failed"]]}
        ELSE {[status |-> 200,
               body |-> [data |-> [i \in DOMAIN page |-> ListedRow(page[i])],
                         total |-> total,
                         limit |-> limit.value,
                         offset |-> offset.value]] :
                 page \in {LimitOffset(s, limit.value, offset.value) :
                               s \in OrderedByCreatedAtDesc(matching)}}

\* the responses of GET /api/admin/diagnoses/:id
AdminDiagnosisById(id) ==
    LET found == {row \in RowsOf(db.diagnosis_history) : row.id = id}
    IN  IF found = {} THEN {[status |-> 404, body |-> [error |-> "not_found"]]}
        ELSE {[status |-> 200,
               body |-> [r EXCEPT !.industry_name = IndustryNameOf(r.industry_code)]] :
                 r \in {[industry_name |-> "NULL"] @@ row : row \in found}}

\* the responses of GET /api/admin/stats; by_industry lists every industry of
\* the history, at most 10 in the tables considered
AdminStats(time) ==
    LET rows == RowsOf(db.diagnosis_history)
    IN  {[status |-> 200,
          body |-> [total |-> Cardinality(rows),
                    today |-> Cardinality({row \in rows :
                                             DateOf(row.created_at) = DateOf(time)}),
                    by_industry |->
                        {[industry_code |-> code, industry_name |-> IndustryNameOf(code),
                          count |-> Cardinality({row \in rows : row.industry_code = code})] :
                            code \in {row.industry_code : row \in rows}},
                    by_risk |->
                        {[risk_level |-> level,
                          count |-> Cardinality({row \in rows : row.risk_level = level})] :
                            level \in {row.risk_level : row \in rows}}]]}

\* the handler of an admin endpoint
HandlerResponses(endpoint, q, id, time) ==
    IF endpoint = "diagnoses" THEN AdminDiagnoses(q)
    ELSE IF endpoint = "diagnoses_id" THEN AdminDiagnosisById(id)
    ELSE AdminStats(time)

\* a GET on an admin endpoint: adminAuth, then the handler
AdminGet(endpoints, headers, queries, ids) ==
    /\ \E endpoint \in endpoints, authHeader \in headers, q \in queries, id \in ids :
          /\ args' = [endpoint |-> endpoint, authorization |-> authHeader, query |-> q,
                      id |-> id, time |-> now]
          /\ LET auth == adminAuth(authHeader, now)
             IN  \/ /\ auth # "next"
                    /\ ret' = [status |-> 401, body |-> [error |-> auth]]
                    /\ log' = <<"adminAuth">>
                 \/ /\ auth = "next"
                    /\ \/ ret' \in HandlerResponses(endpoint, q, id, now)
                       \/ ret' = [status |-> 500, body |-> [error |-> "handler_failed"]]
                    /\ log' = <<"adminAuth", endpoint>>
    /\ pc' = "done"
    /\ UNCHANGED <<diagnosisModule, financials, sinboResult, industryName, diagnosis, calls,
                   db, now, issued>>

(* Admin sessions.  The clock moves forward over the multiples of the token  *)
(* lifetime and the millisecond after each, up to MaxDays days; at most      *)
(* MaxLogins logins succeed.  admin_users holds one   *)
(* account whose password_hash is a SHA-256 digest and the account the       *)
(* migration seeds, whose password_hash is a digest of another kind.  A      *)
(* request carries no Authorization header, one of another scheme, or a      *)
(* bearer token: one that login returned, or one made up by the caller.      *)

MaxDays == 2
MaxLogins == 2

Instants == {d * TokenLifetime + e : d \in 0..MaxDays, e \in {0, 1}}

\* last_login -1 is NULL
AdminUsers ==
    {[id |-> 1, username |-> "admin", password_hash |-> Sha256("secret"),
      full_name |-> "Admin", email |-> "admin@example.com", last_login |-> -1],
     [id |-> 2, username |-> "seeded", password_hash |-> [algorithm |-> "md5", of |-> "123456"],
      full_name |-> "Seeded", email |-> "seeded@example.com", last_login |-> -1]}

LoginBodies ==
    {MalformedBody}
    \cup {ObjectBody([username |-> u, password |-> p]) :
            u \in {"admin", "seeded", UndefinedText}, p \in {"secret", "123456", UndefinedText}}

\* a row of diagnosis_history as the admin handlers read it
AdminHistoryRow(id, name, code, risk, email, phone, createdAt) ==
    [id |-> id, company_name |-> name, industry_code |-> code, risk_level |-> risk,
     contact_email |-> email, contact_phone |-> phone, created_at |-> createdAt]

CandidateHistory ==
    {AdminHistoryRow(1, <<"a", "b">>, "C10", "LOW", Null, Null, 10),
     AdminHistoryRow(2, <<"b">>, "C20", "HIGH", <<"a">>, Null, 20),
     AdminHistoryRow(3, <<"b", "b">>, "C10", "LOW", Null, <<"a", "b">>, 20),
     AdminHistoryRow(4, <<"a">>, "Z99", "MEDIUM", Null, Null, MillisecondsPerDay + 5)}

\* the table holding the rows of a set, in the order of their ids
TableOf(rows) ==
    CHOOSE s \in [1..Cardinality(rows) -> rows] :
        \A i, j \in DOMAIN s : i < j => s[i].id < s[j].id

AdminEndpoints == {"diagnoses", "diagnoses_id", "stats"}

DefaultQuery ==
    [search |-> <<>>, industry |-> UndefinedText, startDate |-> NoDate, endDate |-> NoDate,
     limit |-> Absent, offset |-> Absent]

\* tokens no login returned: text without ':', an id alone, a timestamp that is
\* no numeral, a timestamp in the future, the current time with an id no
\* account has, and a timestamp more than 24 hours back
MadeUpTokens ==
    {[base64 |-> <<OtherText>>],
     [base64 |-> <<Digits(1)>>],
     [base64 |-> <<Digits(1), OtherText>>],
     Token(1, now + 1),
     Token(7, now),
     Token(1, now - TokenLifetime - 1)}

Headers == {NoHeader, BasicHeader} \cup {Bearer(token) : token \in issued \cup MadeUpTokens}

Tick ==
    /\ \E t \in Instants : t > now /\ now' = t
    /\ UNCHANGED <<pc, diagnosisModule, financials, sinboResult, industryName, diagnosis, args,
                   ret, calls, db, log, issued>>

InitAdmin ==
    /\ pc = "start"
    /\ diagnosisModule = "twelve"
    /\ financials = Undefined
    /\ sinboResult = Undefined
    /\ industryName = Undefined
    /\ diagnosis = Undefined
    /\ args = Undefined
    /\ ret = Undefined
    /\ calls = <<>>
    /\ db = [industry_codes |-> IndustryCodeRows, admin_users |-> AdminUsers,
             diagnosis_history |-> TableOf({r \in CandidateHistory : r.id <= 2})]
    /\ log = <<>>
    /\ now = 0
    /\ issued = {}

NextAdmin ==
    \/ Tick
    \/ Cardinality(issued) < MaxLogins /\ PostAdminLogin(LoginBodies)
    \/ AdminGet(AdminEndpoints, Headers, {DefaultQuery}, {1, 9})

SpecAdmin == InitAdmin /\ [][NextAdmin]_vars

(* The admin list.  An admin who logged in at time 0 lists a history of at   *)
(* most MaxHistory of the rows of CandidateHistory - two of them inserted in *)
(* the same millisecond, one on the next day, one of an industry the code    *)
(* table lacks - with every combination of the query parameters below.       *)

MaxHistory == 2

ListQueries ==
    [search : {<<>>, <<"a">>, <<"a", "b">>, <<"_", "b">>},
     industry : {UndefinedText, "C10"},
     startDate : {NoDate, Date(1)},
     endDate : {NoDate, Date(0)},
     limit : {Absent, Digits(0), Digits(1), Digits(2), Digits(-1), OtherText},
     offset : {Absent, Digits(1), Digits(-1)}]

InitAdminList ==
    /\ pc = "start"
    /\ diagnosisModule = "twelve"
    /\ financials = Undefined
    /\ sinboResult = Undefined
    /\ industryName = Undefined
    /\ diagnosis = Undefined
    /\ args = Undefined
    /\ ret = Undefined
    /\ calls = <<>>
    /\ \E rows \in SUBSET CandidateHistory :
          /\ Cardinality(rows) <= MaxHistory
          /\ db = [industry_codes |-> IndustryCodeRows,
                   admin_users |-> {IF u.id = 1 THEN [u EXCEPT !.last_login = 0] ELSE u :
                                       u \in AdminUsers},
                   diagnosis_history |-> TableOf(rows)]
    /\ log = <<>>
    /\ now = 0
    /\ issued = {Token(1, 0)}

NextAdminList ==
    pc = "start" /\ AdminGet({"diagnoses"}, {Bearer(Token(1, 0))}, ListQueries, {0})

SpecAdminList == InitAdminList /\ [][NextAdminList]_vars

----------------------------------------------------------------------------
(* Direct calls of roundRatio on the values calculateFinancialRatios stores: *)
(* a / b and a / b * 100 for amounts a, b of at most MaxAmount               *)

MaxAmount == 32

RatioValues ==
    {RMul(RDiv(Num(a), Num(b)), Num(scale)) :
        a \in (-MaxAmount)..MaxAmount, b \in 1..MaxAmount, scale \in {1, 100}}

InitRound ==
    /\ pc = "start"
    /\ args \in {<<v>> : v \in RatioValues \cup {Undefined}}
    /\ ret = Undefined
    /\ diagnosisModule = "twelve"
    /\ financials = Undefined
    /\ sinboResult = Undefined
    /\ industryName = Undefined
    /\ diagnosis = Undefined
    /\ calls = <<>>
    /\ log = <<>>
    /\ now = 0
    /\ issued = {}
    /\ db = Undefined

RoundRatio ==
    /\ pc = "start"
    /\ ret' = roundRatio(args[1])
    /\ pc' = "done"
    /\ UNCHANGED <<diagnosisModule, financials, sinboResult, industryName, diagnosis, args, calls, db,
                 log, now, issued>>

SpecRound == InitRound /\ [][RoundRatio]_vars

(* Direct calls of compareRatio, as compareRatios makes them: a non-zero     *)
(* rounded company ratio against a non-zero average, current_ratio standing  *)
(* for the higher-is-better ratios and debt_ratio being the other one.       *)

MaxCents == 24

CompanyValues ==
    {Norm(c, 100) : c \in ((-MaxCents)..MaxCents) \ {0}}
    \cup {Norm(13333, 100), Norm(16667, 100), Norm(2201, 100), Num(22)}

IndustryAverages ==
    {Norm(b, 100) : b \in ((-MaxCents)..MaxCents) \ {0}}
    \cup {Num(120), Num(150), Norm(2001, 100), Num(20), Norm(125, 1000)}

CallSites == {<<"current_ratio", "current_ratio_pct", TRUE>>, <<"debt_ratio", "debt_ratio_pct", FALSE>>}

CompareArgs ==
    {<<s[1], s[2], c, b, s[3]>> : s \in CallSites, c \in CompanyValues, b \in IndustryAverages}

InitCompare ==
    /\ pc = "start"
    /\ args \in CompareArgs
    /\ ret = Undefined
    /\ diagnosisModule = "twelve"
    /\ financials = Undefined
    /\ sinboResult = Undefined
    /\ industryName = Undefined
    /\ diagnosis = Undefined
    /\ calls = <<>>
    /\ log = <<>>
    /\ now = 0
    /\ issued = {}
    /\ db = Undefined

CompareRatio ==
    /\ pc = "start"
    /\ ret' = compareRatio(args[1], args[2], args[3], args[4], args[5])
    /\ pc' = "done"
    /\ UNCHANGED <<diagnosisModule, financials, sinboResult, industryName, diagnosis, args, calls, db,
                 log, now, issued>>

SpecCompare == InitCompare /\ [][CompareRatio]_vars

----------------------------------------------------------------------------
(* The documented contract (specification sections 4.1 and 4.2), written     *)
(* independently of the operators above                                      *)

Numerator ==
    [current_ratio |-> "current_assets", quick_ratio |-> "quick_assets",
     debt_ratio |-> "total_liabilities", equity_ratio |-> "equity",
     operating_margin |-> "operating_income", net_margin |-> "net_income",
     roa |-> "net_income", roe |-> "net_income", asset_turnover |-> "sales",
     inventory_turnover |-> "sales", receivable_turnover |-> "sales",
     interest_coverage |-> "operating_income"]

Denominator ==
    [current_ratio |-> "current_liabilities", quick_ratio |-> "current_liabilities",
     debt_ratio |-> "equity", equity_ratio |-> "total_assets",
     operating_margin |-> "sales", net_margin |-> "sales",
     roa |-> "total_assets", roe |-> "equity", asset_turnover |-> "total_assets",
     inventory_turnover |-> "inventory", receivable_turnover |-> "receivables",
     interest_coverage |-> "interest_expense"]

PercentageRatios ==
    {"current_ratio", "quick_ratio", "debt_ratio", "equity_ratio",
     "operating_margin", "net_margin", "roa", "roe"}

\* numerator / denominator, x100 for the percentage ratios
DocumentedValue(f, r) ==
    LET q == Norm(f[Numerator[r]][1] * f[Denominator[r]][2],
                  f[Numerator[r]][2] * f[Denominator[r]][1])
    IN  IF r \in PercentageRatios THEN Norm(100 * q[1], q[2]) ELSE q

\* x has at most two decimals and lies within half a hundredth of e
IsRoundedTo2(x, e) ==
    /\ IsNumber(x)
    /\ 100 % x[2] = 0
    /\ LET diff == RSub(x, e) IN 200 * Abs(diff[1]) <= diff[2]

\* (company - benchmark) / benchmark * 100
DocumentedDifference(company, benchmark) ==
    Norm(100 * (company[1] * benchmark[2] - benchmark[1] * company[2]),
         company[2] * benchmark[1])

HigherIsBetterStatus(d) ==
    IF d[1] >= 10 * d[2] THEN "good"
    ELSE IF d[1] >= -10 * d[2] THEN "warning"
    ELSE "danger"

LowerIsBetterStatus(d) ==
    IF d[1] <= -10 * d[2] THEN "good"
    ELSE IF d[1] <= 10 * d[2] THEN "warning"
    ELSE "danger"

Calculated == diagnosis.calculated_ratios

----------------------------------------------------------------------------
(* C1: whenever the numerator and the denominator of a ratio are both        *)
(* present and non-zero in the request, the Computed Ratio Set carries that  *)
(* ratio, with at most two decimals and within half a hundredth of           *)
(* numerator / denominator (x100 for the eight percentage ratios, unscaled   *)
(* for the three turnovers and interest_coverage).                           *)
C1_DocumentedFormula ==
    pc = "done" =>
        \A r \in RatioSet :
            (Truthy(financials[Numerator[r]]) /\ Truthy(financials[Denominator[r]]))
            => /\ r \in DOMAIN Calculated
               /\ IsRoundedTo2(Calculated[r], DocumentedValue(financials, r))

\* sales 8 over total assets 3 is a turnover of 2.67, equity -1 over total
\* assets 3 an equity ratio of -33.33 %
C1_Witness ==
    /\ pc = "done"
    /\ financials.sales = Num(8)
    /\ financials.total_assets = Num(3)
    /\ financials.equity = Num(-1)
    /\ Get(Calculated, "asset_turnover") = Norm(267, 100)
    /\ Get(Calculated, "equity_ratio") = Norm(-3333, 100)

(* C2: a ratio with a missing or zero operand has no key in the Computed     *)
(* Ratio Set (it is not reported as 0), and every ratio whose operands are   *)
(* all present and non-zero is still computed.  The quick-assets operand of  *)
(* quick_ratio is missing when quick_assets is not supplied and cannot be    *)
(* derived because current_assets or inventory is missing.                   *)
OperandMissing(f, r) ==
    IF r = "quick_ratio"
    THEN \/ ~Truthy(f.current_liabilities)
         \/ (~Truthy(f.quick_assets)
             /\ (~Truthy(f.current_assets) \/ ~Truthy(f.inventory)))
    ELSE ~Truthy(f[Numerator[r]]) \/ ~Truthy(f[Denominator[r]])

C2_MissingOperandOmitsKey ==
    pc = "done" =>
        \A r \in RatioSet :
            IF OperandMissing(financials, r)
            THEN r \notin DOMAIN Calculated
            ELSE r \in DOMAIN Calculated /\ IsNumber(Calculated[r])

\* sales sent as 0, inventory left out: net_margin, asset_turnover and
\* inventory_turnover are absent while roa is computed
C2_Witness ==
    /\ pc = "done"
    /\ financials.sales = Zero
    /\ financials.inventory = Undefined
    /\ financials.net_income = Num(3)
    /\ financials.total_assets = Num(8)
    /\ DOMAIN Calculated = {"roa"}
    /\ Calculated["roa"] = Norm(375, 10)

(* C3: a higher-is-better comparison is good when the unrounded difference   *)
(* d = (company - benchmark) / benchmark * 100 is at least +10, warning when *)
(* -10 <= d < +10 and danger when d < -10; 133.33 against 120.00 is reported *)
(* as a difference of 11.11 with status good.                                *)
C3_HigherIsBetterThresholds ==
    (pc = "done" /\ args[5]) =>
        LET d == DocumentedDifference(args[3], args[4])
        IN  /\ ret.status = HigherIsBetterStatus(d)
            /\ (d = Num(10) => ret.status = "good")
            /\ (d = Num(-10) => ret.status = "warning")
            /\ (args[3] = Norm(13333, 100) /\ args[4] = Num(120)
                => ret.difference_pct = Norm(1111, 100) /\ ret.status = "good")

\* 0.11 against 0.10 is exactly +10 %
C3_Witness ==
    /\ pc = "done"
    /\ args[5]
    /\ args[3] = Norm(11, 100)
    /\ args[4] = Norm(10, 100)
    /\ DocumentedDifference(args[3], args[4]) = Num(10)
    /\ ret.status = "good"

(* C4: the lower-is-better comparison (debt_ratio) is good when the          *)
(* unrounded difference d is at most -10, warning when -10 < d <= +10 and    *)
(* danger when d > +10; 166.67 against 150.00 is reported as a difference of *)
(* 11.11 with status danger.                                                 *)
C4_LowerIsBetterThresholds ==
    (pc = "done" /\ ~args[5]) =>
        LET d == DocumentedDifference(args[3], args[4])
        IN  /\ ret.status = LowerIsBetterStatus(d)
            /\ (d = Num(-10) => ret.status = "good")
            /\ (d = Num(10) => ret.status = "warning")
            /\ (args[3] = Norm(16667, 100) /\ args[4] = Num(150)
                => ret.difference_pct = Norm(1111, 100) /\ ret.status = "danger")

\* 0.09 against 0.10 is exactly -10 %
C4_Witness ==
    /\ pc = "done"
    /\ ~args[5]
    /\ args[1] = "debt_ratio"
    /\ args[3] = Norm(9, 100)
    /\ args[4] = Norm(10, 100)
    /\ DocumentedDifference(args[3], args[4]) = Num(-10)
    /\ ret.status = "good"

(* C5: for each of the 12 ratios, the comparisons list of the twelve-ratio   *)
(* revision holds exactly one entry when the ratio is present in the         *)
(* Computed Ratio Set and the benchmark row carries an average for it, and   *)
(* none otherwise (an average of 0 is read here as no average, in favour of  *)
(* the code).                                                                *)
EntriesFor(r) ==
    {i \in DOMAIN diagnosis.comparisons : diagnosis.comparisons[i].ratio_name = r}

C5_OnePerRatioPresentInBoth ==
    (pc = "done" /\ diagnosisModule = "twelve") =>
        \A r \in RatioSet :
            Cardinality(EntriesFor(r)) =
                IF r \in DOMAIN Calculated /\ Truthy(sinboResult[r]) THEN 1 ELSE 0

(* C6: the risk tier of a diagnosis is LOW with 0 or 1 danger comparisons,   *)
(* MEDIUM with exactly 2 and HIGH with 3 or more, whatever the number of     *)
(* good and warning comparisons.                                             *)
WithStatus(st) == SelectSeq(diagnosis.comparisons, LAMBDA c : c.status = st)

C6_RiskTierByDangerCount ==
    pc = "done" =>
        LET n == Len(WithStatus("danger"))
        IN  /\ (n <= 1 => diagnosis.risk_level = "LOW")
            /\ (n = 2 => diagnosis.risk_level = "MEDIUM")
            /\ (n >= 3 => diagnosis.risk_level = "HIGH")

\* two danger comparisons beside a good one
C6_Witness ==
    /\ pc = "done"
    /\ Len(WithStatus("danger")) = 2
    /\ Len(WithStatus("good")) = 1
    /\ diagnosis.risk_level = "MEDIUM"

(* C7, as claimed: roundRatio(v) = sign(v) * floor(|v| * 100 + 0.5) / 100,   *)
(* that is, a tie at the third decimal goes away from zero.                  *)
FloorOf(x) == x[1] \div x[2]

HalfAwayFromZero(v) ==
    LET m == FloorOf(Norm(200 * Abs(v[1]) + v[2], 2 * v[2]))
    IN  Norm(IF v[1] < 0 THEN -m ELSE m, 100)

C7_RoundHalfAwayFromZero ==
    (pc = "done" /\ IsNumber(args[1])) => ret = HalfAwayFromZero(args[1])

(* C7, amended: roundRatio(v) is k / 100 for the integer k nearest to the    *)
(* scaled value v * 100, a tie going towards +infinity:                      *)
(* k - 1/2 <= v * 100 < k + 1/2.  It agrees with half away from zero for     *)
(* every v >= 0 and every negative v that is not a tie.                      *)
IsNegativeTie(v) ==
    /\ v[1] < 0
    /\ (200 * Abs(v[1])) % v[2] = 0
    /\ ((200 * Abs(v[1])) \div v[2]) % 2 = 1

C7_RoundHalfUp ==
    (pc = "done" /\ IsNumber(args[1])) =>
        LET v == args[1]
            k == RMul(ret, Hundred)
        IN  /\ IsNumber(ret)
            /\ k[2] = 1
            /\ (2 * k[1] - 1) * v[2] <= 200 * v[1]
            /\ 200 * v[1] < (2 * k[1] + 1) * v[2]
            /\ (~IsNegativeTie(v) => ret = HalfAwayFromZero(v))

\* -1 / 8 = -0.125 is rounded to -0.12
C7_Witness ==
    /\ pc = "done"
    /\ args[1] = Norm(-1, 8)
    /\ ret = Norm(-12, 100)

(* C8: the difference_pct of every comparison has at most two decimals and   *)
(* lies within half a hundredth of (company - benchmark) / benchmark * 100,  *)
(* company being the rounded ratio of the Computed Ratio Set and benchmark   *)
(* the (unrounded) value of the benchmark row.                               *)
C8_DifferencePct ==
    pc = "done" =>
        \A i \in DOMAIN diagnosis.comparisons :
            LET c == diagnosis.comparisons[i]
            IN  IsRoundedTo2(c.difference_pct,
                             DocumentedDifference(Calculated[c.ratio_name],
                                                  sinboResult[c.ratio_name]))

\* a debt ratio of 37.50 against the average 37.125 differs by 1.0101.. %
C8_Witness ==
    /\ pc = "done"
    /\ sinboResult.debt_ratio = Norm(37125, 1000)
    /\ Get(Calculated, "debt_ratio") = Norm(375, 10)
    /\ \E i \in DOMAIN diagnosis.comparisons :
          /\ diagnosis.comparisons[i].ratio_name = "debt_ratio"
          /\ diagnosis.comparisons[i].difference_pct = Norm(101, 100)

(* C9, as claimed: any two Comparison Results with the same difference_pct   *)
(* and the same polarity have the same status.                               *)
Reported ==
    [a \in CompareArgs |->
        LET r == compareRatio(a[1], a[2], a[3], a[4], a[5])
        IN  <<r.difference_pct, r.status>>]

C9_StatusByReportedDifference ==
    pc = "done" =>
        \A a \in CompareArgs :
            (a[5] = args[5] /\ Reported[a][1] = ret.difference_pct)
            => Reported[a][2] = ret.status

(* C9, amended: the status of a Comparison Result is a function of its       *)
(* difference_pct and its polarity alone - the threshold table applied to    *)
(* the reported value - so that two results with the same difference_pct and *)
(* polarity have the same status, unless that difference_pct is exactly      *)
(* +10.00 or -10.00, where the unrounded difference decides.                 *)
C9_StatusByReportedDifferenceOffThreshold ==
    (pc = "done" /\ ret.difference_pct \notin {Ten, MinusTen}) =>
        ret.status = IF args[5] THEN HigherIsBetterStatus(ret.difference_pct)
                                ELSE LowerIsBetterStatus(ret.difference_pct)

\* 133.33 against 120 (11.108.. %) and 166.67 against 150 (11.113.. %) are both
\* reported as 11.11 and both good
C9_Witness ==
    /\ pc = "done"
    /\ args[5]
    /\ args[3] = Norm(13333, 100)
    /\ args[4] = Num(120)
    /\ ret.difference_pct = Norm(1111, 100)
    /\ ret.status = "good"
    /\ Reported[<<args[1], args[2], Norm(16667, 100), Num(150), TRUE>>]
          = <<Norm(1111, 100), "good">>

(* C10: every comparison of a diagnosis is classified as higher-is-better,   *)
(* except a debt_ratio comparison, which is classified as lower-is-better,   *)
(* whatever the values compared.                                             *)
C10_FixedPolarity ==
    pc = "done" =>
        \A i \in DOMAIN diagnosis.comparisons :
            LET c == diagnosis.comparisons[i]
                d == DocumentedDifference(Calculated[c.ratio_name], sinboResult[c.ratio_name])
            IN  c.status = IF c.ratio_name = "debt_ratio"
                           THEN LowerIsBetterStatus(d)
                           ELSE HigherIsBetterStatus(d)

\* twice the average is danger for debt_ratio and good for roe
C10_Witness ==
    /\ pc = "done"
    /\ \E i, j \in DOMAIN diagnosis.comparisons :
          /\ diagnosis.comparisons[i].ratio_name = "debt_ratio"
          /\ diagnosis.comparisons[i].difference_pct = Hundred
          /\ diagnosis.comparisons[i].status = "danger"
          /\ diagnosis.comparisons[j].ratio_name = "roe"
          /\ diagnosis.comparisons[j].difference_pct = Hundred
          /\ diagnosis.comparisons[j].status = "good"

(* C11: the comparisons list follows the canonical sequence of RatioNames:   *)
(* of any two entries, the one whose ratio comes earlier in the sequence     *)
(* comes first, whatever subset of the ratios is compared.                   *)
PositionOf(name) == CHOOSE i \in DOMAIN RatioNames : RatioNames[i] = name

C11_CanonicalOrder ==
    pc = "done" =>
        \A i, j \in DOMAIN diagnosis.comparisons :
            i < j => PositionOf(diagnosis.comparisons[i].ratio_name)
                     < PositionOf(diagnosis.comparisons[j].ratio_name)

\* averages for interest_coverage, debt_ratio and current_ratio only
C11_Witness ==
    /\ pc = "done"
    /\ diagnosisModule = "twelve"
    /\ Len(diagnosis.comparisons) = 3
    /\ diagnosis.comparisons[1].ratio_name = "current_ratio"
    /\ diagnosis.comparisons[2].ratio_name = "debt_ratio"
    /\ diagnosis.comparisons[3].ratio_name = "interest_coverage"

(* C12: the recommendations list is as long as the number of danger          *)
(* comparisons, except that with no danger comparison it holds exactly one   *)
(* entry, the message advising to maintain the current state.                *)
MaintainMessage == IF diagnosisModule = "twelve" THEN "maintain_and_monitor" ELSE "maintain"

C12_RecommendationCount ==
    pc = "done" =>
        LET n == Len(WithStatus("danger"))
        IN  IF n = 0
            THEN diagnosis.recommendations = <<MaintainMessage>>
            ELSE Len(diagnosis.recommendations) = n

\* two danger comparisons beside one that is not: two recommendations
C12_Witness ==
    /\ pc = "done"
    /\ Len(diagnosis.comparisons) = 3
    /\ Len(WithStatus("danger")) = 2
    /\ Len(diagnosis.recommendations) = 2
    /\ \A i \in DOMAIN diagnosis.recommendations :
          diagnosis.recommendations[i] # MaintainMessage

(* C13: with at least one danger comparison, the i-th recommendation is the  *)
(* advisory of the i-th danger comparison's ratio, and no string occurs      *)
(* twice in the recommendations list.                                        *)
AdvisoryOf(name) ==
    IF diagnosisModule = "twelve" THEN RecommendationsFor(name)
    ELSE RecommendationsForBasic(name)

C13_OrderedKeyedDistinct ==
    (pc = "done" /\ Len(WithStatus("danger")) > 0) =>
        LET danger == WithStatus("danger")
            recs == diagnosis.recommendations
        IN  /\ Len(recs) = Len(danger)
            /\ \A i \in DOMAIN recs : <<recs[i]>> = AdvisoryOf(danger[i].ratio_name)
            /\ \A i, j \in DOMAIN recs : i # j => recs[i] # recs[j]

(* C14: a supplied quick_assets decides quick_ratio, as quick_assets /       *)
(* current_liabilities * 100, and the derived (current_assets - inventory) / *)
(* current_liabilities * 100 is used only when quick_assets is not supplied  *)
(* and current_assets and inventory are both present.  Read in favour of the *)
(* code: a figure is present when it is non-zero, and a supplied quick_assets *)
(* of 0 may give a quick_ratio of 0 or none at all, but not the derived one. *)
QuickRatioIs(e) ==
    "quick_ratio" \in DOMAIN Calculated /\ IsRoundedTo2(Calculated["quick_ratio"], e)

C14_SuppliedQuickAssetsPrecede ==
    (pc = "done" /\ Truthy(financials.current_liabilities)) =>
        LET f == financials
        IN  /\ Truthy(f.quick_assets) =>
                QuickRatioIs(RMul(RDiv(f.quick_assets, f.current_liabilities), Hundred))
            /\ f.quick_assets = Zero =>
                \/ "quick_ratio" \notin DOMAIN Calculated
                \/ Calculated["quick_ratio"] = Zero
            /\ (f.quick_assets = Undefined /\ Truthy(f.current_assets) /\ Truthy(f.inventory)) =>
                QuickRatioIs(RMul(RDiv(RSub(f.current_assets, f.inventory),
                                       f.current_liabilities), Hundred))

(* C15: the diagnosis core is total.  For every request, whichever figures   *)
(* are missing, zero or negative, and every benchmark row, whichever         *)
(* averages are NULL, zero or negative, what the call returns is a Diagnosis *)
(* Result: the ten fields, every number in it finite (no division by zero    *)
(* took place), a risk tier and at least one recommendation.                 *)
DiagnosisFields ==
    {"company_name", "industry_name", "year", "firm_size_type", "calculated_ratios",
     "industry_averages", "comparisons", "risk_level", "overall_comment", "recommendations"}

Statuses == {"good", "warning", "danger"}

IsDiagnosisResult(d) ==
    /\ DOMAIN d = DiagnosisFields
    /\ DOMAIN d.calculated_ratios \subseteq RatioSet
    /\ \A k \in DOMAIN d.calculated_ratios : IsFinite(d.calculated_ratios[k])
    /\ DOMAIN d.industry_averages = RatioSet
    /\ \A i \in DOMAIN d.comparisons :
          /\ IsFinite(d.comparisons[i].company_value)
          /\ IsFinite(d.comparisons[i].industry_avg)
          /\ IsFinite(d.comparisons[i].difference_pct)
          /\ d.comparisons[i].status \in Statuses
    /\ d.risk_level \in {"LOW", "MEDIUM", "HIGH"}
    /\ Len(d.recommendations) >= 1

C15_CoreIsTotal ==
    pc = "done" => IsDiagnosisResult(diagnosis)

\* sales sent as 0, a negative equity, nine figures missing, against the row
\* with NULL, zero and negative averages
C15_Witness ==
    /\ pc = "done"
    /\ financials.sales = Zero
    /\ financials.equity = Num(-1)
    /\ financials.total_assets = Num(3)
    /\ sinboResult.current_ratio = Null
    /\ sinboResult.roa = Zero
    /\ sinboResult.debt_ratio = Norm(-3333, 100)
    /\ Len(diagnosis.comparisons) = 1
    /\ IsDiagnosisResult(diagnosis)

C19_OverallCommentByTier ==
    pc = "done" =>
        diagnosis.overall_comment =
            IF diagnosis.risk_level = "LOW" THEN <<"sound", Len(WithStatus("good"))>>
            ELSE IF diagnosis.risk_level = "MEDIUM"
            THEN <<"average_needs_improvement", Len(WithStatus("danger"))>>
            ELSE <<"vulnerable", Len(WithStatus("danger"))>>

\* LOW with one danger comparison and two good ones: the comment counts the two
C19_Witness ==
    /\ pc = "done"
    /\ diagnosis.risk_level = "LOW"
    /\ Len(WithStatus("danger")) = 1
    /\ Len(WithStatus("good")) = 2
    /\ diagnosis.overall_comment = <<"sound", 2>>

(* C16: POST /api/diagnose computes a diagnosis only against a row of        *)
(* sinbo_ratios whose industry_code, year and firm_size_type are those of    *)
(* the request and whose valid_yn is 'Y'.  When the table holds no such row  *)
(* no diagnosis is computed and nothing is stored, and a request that got as *)
(* far as the benchmark lookup (identity fields present, industry code       *)
(* known, no data-store failure) is answered with 404.                       *)
IsDefined(v) == DOMAIN v # {}

IsMatchingRow(r, f) ==
    /\ r.industry_code = f.industry_code
    /\ r.year = f.year
    /\ r.firm_size_type = f.firm_size_type
    /\ r.valid_yn = "Y"

C16_OnlyMatchingValidBenchmark ==
    (pc = "done" /\ args.kind = "object") =>
        LET f == args.json
        IN  /\ IsDefined(diagnosis) =>
                /\ sinboResult \in db.sinbo_ratios
                /\ IsMatchingRow(sinboResult, f)
                /\ diagnosis.industry_averages = [k \in RatioSet |-> sinboResult[k]]
            /\ (\A r \in db.sinbo_ratios : ~IsMatchingRow(r, f)) =>
                /\ ~IsDefined(diagnosis)
                /\ ret.status # 200
                /\ db.diagnosis_history = <<>>
                /\ (/\ f.company_name = "acme"
                    /\ f.year # 0
                    /\ \E c \in db.industry_codes : c.code = f.industry_code
                    /\ ret.status # 500) => ret.status = 404

\* a withdrawn row and a valid row for the request's key: the valid one is used
C16_Witness ==
    /\ pc = "done"
    /\ args.kind = "object"
    /\ ret.status = 200
    /\ \E r \in db.sinbo_ratios :
          /\ r.valid_yn = "N"
          /\ r.industry_code = args.json.industry_code
          /\ r.year = args.json.year
          /\ r.firm_size_type = args.json.firm_size_type
    /\ sinboResult.valid_yn = "Y"
    /\ IsDefined(diagnosis)

(* C17: a failure of POST /api/diagnose that is the caller's mistake - a     *)
(* malformed body, a missing company name, industry code, year or firm-size  *)
(* category, an unknown industry code, no matching benchmark - is answered   *)
(* with a 4xx status, and a 5xx status is returned only for an unexpected    *)
(* fault.  Read in favour of the code: any error raised by the data store    *)
(* counts as an unexpected fault, and a body that is the JSON text null is   *)
(* left aside.                                                               *)
CallersMistake ==
    \/ args.kind = "malformed"
    \/ Missing(args.json.company_name)
    \/ Missing(args.json.industry_code)
    \/ MissingYear(args.json.year)
    \/ Missing(args.json.firm_size_type)
    \/ \A c \in db.industry_codes : c.code # args.json.industry_code
    \/ \A r \in db.sinbo_ratios : ~IsMatchingRow(r, args.json)

DataStoreRaised ==
    ret.status = 500 /\ ret.body.details \in {"D1_ERROR", "D1_TYPE_ERROR"}

C17_CallersMistakeIs4xx ==
    (pc = "done" /\ args.kind # "null") =>
        /\ (CallersMistake /\ ~DataStoreRaised) => ret.status \in 400..499
        /\ ret.status >= 500 => DataStoreRaised

(* C20: parsing the JSON text of a Diagnosis Result - the response body and  *)
(* the diagnosis_result column of the history row - gives back the result:   *)
(* every one of the ten fields has the value it had, and calculated_ratios   *)
(* and industry_averages have the keys they had.                             *)
LastHistoryRow == db.diagnosis_history[Len(db.diagnosis_history)]

RoundTrips(text) ==
    LET back == JsonParse(text)
    IN  /\ DOMAIN back = DiagnosisFields
        /\ \A k \in DiagnosisFields : back[k] = diagnosis[k]
        /\ DOMAIN back.calculated_ratios = DOMAIN diagnosis.calculated_ratios
        /\ DOMAIN back.industry_averages = DOMAIN diagnosis.industry_averages

----------------------------------------------------------------------------
(* C21: a POST /api/diagnose answered with a Diagnosis Result has inserted   *)
(* exactly one diagnosis_history row, whose diagnosis_result is the          *)
(* serialization of the returned result and whose risk_level is the returned *)
(* risk_level; a request answered with 400 or 404 inserts no row.  The       *)
(* history is empty before the request.                                      *)

C21_OneHistoryRowPerResult ==
    pc = "done" =>
        /\ ret.status = 200 =>
             /\ Len(db.diagnosis_history) = 1
             /\ db.diagnosis_history[1].diagnosis_result = ret.body
             /\ ret.body = JsonStringify(diagnosis)
             /\ db.diagnosis_history[1].risk_level = diagnosis.risk_level
             /\ db.diagnosis_history[1].company_name = financials.company_name
        /\ ret.status \in {400, 404} => db.diagnosis_history = <<>>

\* a HIGH result was returned and stored
C21_Witness ==
    /\ pc = "done"
    /\ ret.status = 200
    /\ diagnosis.risk_level = "HIGH"
    /\ Len(db.diagnosis_history) = 1
----------------------------------------------------------------------------
(* C26: status is monotonic in the company's value.  For a fixed non-zero    *)
(* average, positive or negative, of a higher-is-better ratio no higher      *)
(* company value has a worse status (good > warning > danger); for           *)
(* debt_ratio no lower company value has a worse status.                     *)

StatusRank(st) == CASE st = "danger" -> 0 [] st = "warning" -> 1 [] st = "good" -> 2

C26_StatusMonotonic ==
    pc = "done" =>
        \A other \in CompanyValues :
            LET there == compareRatio(args[1], args[2], other, args[4], args[5])
            IN  /\ (args[5] /\ RGe(other, args[3]))
                    => StatusRank(there.status) >= StatusRank(ret.status)
                /\ (~args[5] /\ RLe(other, args[3]))
                    => StatusRank(there.status) >= StatusRank(ret.status)
----------------------------------------------------------------------------
(* C27: when no ratio can be compared, every ratio being missing on the      *)
(* company side or on the benchmark side, compareRatios still returns a      *)
(* result: risk_level LOW, the LOW overall comment with a good count of 0,   *)
(* and the single 'maintain' recommendation.                                 *)

C27_EmptyComparisons ==
    (pc = "done" /\ diagnosis.comparisons = <<>>) =>
        /\ IsDiagnosisResult(diagnosis)
        /\ diagnosis.risk_level = "LOW"
        /\ diagnosis.overall_comment = <<"sound", 0>>
        /\ diagnosis.recommendations = <<MaintainMessage>>

\* a ratio was calculated and the benchmark has no average for it, while the
\* benchmark's averages are for ratios that were not calculated
C27_Witness ==
    /\ pc = "done"
    /\ diagnosis.comparisons = <<>>
    /\ diagnosisModule = "twelve"
    /\ \E r \in RatioSet : Truthy(Get(diagnosis.calculated_ratios, r))
    /\ \E r \in RatioSet : Truthy(diagnosis.industry_averages[r])
----------------------------------------------------------------------------
(* C28: once the diagnosis is computed the request ends in one of two ways.  *)
(* Either the history insert succeeded: one row, status 200.  Or it failed:  *)
(* the answer is 500 with an error body, the computed Diagnosis Result is    *)
(* not in the response, and the history holds no row for the request.        *)

C28_InsertFailureIs500 ==
    (pc = "done" /\ IsDefined(diagnosis)) =>
        \/ /\ ret.status = 200
           /\ Len(db.diagnosis_history) = 1
        \/ /\ ret.status = 500
           /\ DOMAIN ret.body = {"error", "details"}
           /\ ret.body.details \in {"D1_ERROR", "D1_TYPE_ERROR"}
           /\ db.diagnosis_history = <<>>

\* the INSERT raised after a MEDIUM diagnosis was computed
C28_Witness ==
    /\ pc = "done"
    /\ IsDefined(diagnosis)
    /\ diagnosis.risk_level = "MEDIUM"
    /\ ret.status = 500
    /\ ret.body.details = "D1_ERROR"
    /\ db.diagnosis_history = <<>>
----------------------------------------------------------------------------
(* C29: in every Diagnosis Result each comparison's company_value is the     *)
(* value stored under the same ratio name in calculated_ratios, and its      *)
(* industry_avg is the value under that name in industry_averages rounded to *)
(* 2 decimals; a calc_* column of the history row that carries a value       *)
(* carries the value calculated_ratios has for that ratio.                   *)

CalcColumns ==
    [calc_current_ratio |-> "current_ratio", calc_debt_ratio |-> "debt_ratio",
     calc_equity_ratio |-> "equity_ratio", calc_operating_margin |-> "operating_margin",
     calc_roa |-> "roa", calc_roe |-> "roe"]

C29_ResultIsConsistent ==
    (pc = "done" /\ ret.status = 200) =>
        /\ \A i \in DOMAIN diagnosis.comparisons :
              LET c == diagnosis.comparisons[i]
              IN  /\ c.company_value = Get(diagnosis.calculated_ratios, c.ratio_name)
                  /\ c.industry_avg = Round2(diagnosis.industry_averages[c.ratio_name])
        /\ \A column \in DOMAIN CalcColumns :
              LastHistoryRow[column] # Null =>
                  LastHistoryRow[column] = Get(diagnosis.calculated_ratios, CalcColumns[column])

\* an average with three decimals was rounded for the comparison, and a ratio
\* that needed rounding is in the history row
C29_Witness ==
    /\ pc = "done"
    /\ ret.status = 200
    /\ \E i \in DOMAIN diagnosis.comparisons :
          LET c == diagnosis.comparisons[i]
          IN  c.industry_avg # diagnosis.industry_averages[c.ratio_name]
    /\ LastHistoryRow.calc_current_ratio = Norm(13333, 100)
----------------------------------------------------------------------------
(* C22: POST /api/diagnose executes its statements in one order and stops at *)
(* the first failure.  (1) A request lacking company_name, industry_code or  *)
(* year is answered 400 before any data-store statement; (2) an unknown      *)
(* industry code is answered 400 after the industry lookup alone; (3) a      *)
(* missing benchmark is answered 404 after the two lookups; (4) the ratios   *)
(* are computed only after both lookups found a row; (5) the insert follows  *)
(* the computation and (6) the result is returned after the insert.  No      *)
(* statement is logged for a request after its rejection.                    *)

StatementOrder ==
    <<"parse", "validate", "industry_lookup", "benchmark_lookup", "compute", "insert",
      "respond">>

IsPrefix(s, t) == Len(s) <= Len(t) /\ s = SubSeq(t, 1, Len(s))

IdentityIncomplete(body) ==
    /\ body.kind = "object"
    /\ \/ body.json.company_name \in {UndefinedText, ""}
       \/ body.json.industry_code \in {UndefinedText, ""}
       \/ body.json.year = 0

C22_FixedStepOrder ==
    \A r \in Requests :
        /\ IsPrefix(log[r], StatementOrder)
        /\ IdentityIncomplete(args[r]) => Len(log[r]) <= 2
        /\ pc[r] = "done" =>
              /\ IdentityIncomplete(args[r]) =>
                    ret[r] = [status |-> 400, body |-> [error |-> "missing_required"]]
              /\ ret[r].status = 400 =>
                    IF ret[r].body.error = "missing_required"
                    THEN log[r] = SubSeq(StatementOrder, 1, 2)
                    ELSE /\ log[r] = SubSeq(StatementOrder, 1, 3)
                         /\ \A row \in db.industry_codes :
                               row.code # args[r].json.industry_code
              /\ ret[r].status = 404 =>
                    /\ log[r] = SubSeq(StatementOrder, 1, 4)
                    /\ \A row \in db.sinbo_ratios : ~IsMatchingRow(row, args[r].json)
              /\ ret[r].status = 200 => log[r] = StatementOrder
        /\ Len(log[r]) >= 5 =>
              /\ \E row \in db.industry_codes : row.code = args[r].json.industry_code
              /\ IsMatchingRow(sinboResult[r], args[r].json)
              /\ IsDefined(diagnosis[r])
        /\ Len(log[r]) < 5 => ~IsDefined(diagnosis[r])

\* one request was stopped by the benchmark lookup while another ran to the end
C22_Witness ==
    \E r, s \in Requests :
        /\ pc[r] = "done" /\ ret[r].status = 404
        /\ Len(log[r]) = 4
        /\ pc[s] = "done" /\ ret[s].status = 200
        /\ Len(log[s]) = 7
----------------------------------------------------------------------------
(* C23: diagnosis requests do not interfere when processed concurrently.     *)
(* Under every interleaving of the data-store statements of the requests,    *)
(* the response of each request is one the same request can receive when it  *)
(* is the only one, and the history holds exactly one row per request        *)
(* answered with a Diagnosis Result, that row storing the result returned.   *)

Failure(error) == [status |-> 500, body |-> [error |-> "diagnosis_failed", details |-> error]]

\* the responses to a request processed alone against the tables of db
AloneResponses(body) ==
    IF body.kind = "malformed" THEN {Failure("SyntaxError")}
    ELSE IF body.kind = "null" THEN {Failure("TypeError")}
    ELSE IF IdentityIncomplete(body)
    THEN {[status |-> 400, body |-> [error |-> "missing_required"]]}
    ELSE LET f == body.json
             industries == {row \in db.industry_codes : row.code = f.industry_code}
             benchmarks == {row \in db.sinbo_ratios : IsMatchingRow(row, f)}
         IN  {Failure("D1_ERROR")}
             \cup
             IF industries = {}
             THEN {[status |-> 400, body |-> [error |-> "invalid_industry_code"]]}
             ELSE IF f.firm_size_type = UndefinedText
             THEN {Failure("D1_TYPE_ERROR"), [status |-> 404, body |-> [error |-> "no_benchmark"]]}
             ELSE IF benchmarks = {}
             THEN {[status |-> 404, body |-> [error |-> "no_benchmark"]]}
             ELSE {[status |-> 200,
                    body |-> JsonStringify(DiagnosisOf(diagnosisModule, f, row, industry.name))] :
                      row \in benchmarks, industry \in industries}
                  \cup {Failure("D1_TYPE_ERROR") : k \in {d \in DirectFigures : f[d] = Undefined}}

Answered == {r \in Requests : pc[r] = "done" /\ ret[r].status = 200}

C23_NoInterference ==
    /\ \A r \in Requests : pc[r] = "done" => ret[r] \in AloneResponses(args[r])
    /\ Len(db.diagnosis_history) = Cardinality(Answered)
    /\ \E rowOf \in [Answered -> DOMAIN db.diagnosis_history] :
          /\ \A r, s \in Answered : rowOf[r] = rowOf[s] => r = s
          /\ \A r \in Answered :
                /\ db.diagnosis_history[rowOf[r]].diagnosis_result = ret[r].body
                /\ db.diagnosis_history[rowOf[r]].company_name = args[r].json.company_name

\* two different requests were answered with a result, the one that started
\* first having inserted its row last
C23_Witness ==
    /\ Cardinality(Answered) = 2
    /\ ret[1].body # ret[2].body
    /\ log[1] = StatementOrder
    /\ db.diagnosis_history[1].diagnosis_result = ret[2].body
    /\ db.diagnosis_history[2].diagnosis_result = ret[1].body
----------------------------------------------------------------------------
(* C24: a token returned by a successful admin login at time t is accepted   *)
(* by adminAuth on each admin endpoint at every time up to t + 24 hours, the *)
(* handler running, and is answered 401 at every later time; a request with  *)
(* no Authorization header, or with one that does not start with 'Bearer ',  *)
(* is answered 401 without the handler running.                              *)

IssuedAt(token) == DecodedParts(token)[2].value

C24_TokenValidFor24Hours ==
    (pc = "done" /\ args.endpoint # "login") =>
        LET authHeader == args.authorization
        IN  /\ authHeader.kind # "bearer" =>
                  /\ ret.status = 401
                  /\ log = <<"adminAuth">>
            /\ (authHeader.kind = "bearer" /\ authHeader.token \in issued) =>
                  IF args.time <= IssuedAt(authHeader.token) + TokenLifetime
                  THEN /\ log = <<"adminAuth", args.endpoint>>
                       /\ ret.status # 401
                  ELSE /\ ret.status = 401
                       /\ log = <<"adminAuth">>

\* a token returned at 00:00:00.001 opened the statistics 24 hours later to
\* the millisecond
C24_Witness ==
    /\ pc = "done"
    /\ args.endpoint = "stats"
    /\ args.authorization.kind = "bearer"
    /\ args.authorization.token \in issued
    /\ IssuedAt(args.authorization.token) = 1
    /\ args.time = 1 + TokenLifetime
    /\ ret.status = 200
    /\ log = <<"adminAuth", "stats">>

----------------------------------------------------------------------------
(* C25: the handler of an admin endpoint runs only for a request whose       *)
(* bearer token a successful POST /api/admin/login returned no more than 24  *)
(* hours earlier.  A token no login returned - text without a timestamp      *)
(* part, a timestamp that is no numeral, a timestamp in the future - never   *)
(* reaches the handler.                                                      *)

HandlerRan == Len(log) = 2

C25_OnlyIssuedTokensReachHandler ==
    (pc = "done" /\ args.endpoint # "login" /\ HandlerRan) =>
        /\ args.authorization.kind = "bearer"
        /\ args.authorization.token \in issued
        /\ args.time - IssuedAt(args.authorization.token) <= TokenLifetime
----------------------------------------------------------------------------
(* C30: GET /api/admin/diagnoses applies the same filters to the page query  *)
(* and to the count query.  For every history and every combination of       *)
(* search, industry, startDate and endDate, 'total' is the number of history *)
(* rows matching the filters whatever limit and offset are, 'data' holds at  *)
(* most 'limit' rows (none for a limit below 0), every row of 'data' matches *)
(* the filters, and the rows come newest first.                              *)

MatchingRowIds == {row.id : row \in {r \in RowsOf(db.diagnosis_history) : PageWhere(args.query, r)}}

C30_ListMatchesFilters ==
    (pc = "done" /\ args.endpoint = "diagnoses" /\ ret.status = 200) =>
        LET data == ret.body.data
        IN  /\ ret.body.total = Cardinality(MatchingRowIds)
            /\ Len(data) <= (IF ret.body.limit < 0 THEN 0 ELSE ret.body.limit)
            /\ \A i \in DOMAIN data : data[i].id \in MatchingRowIds
            /\ \A i, j \in DOMAIN data : i < j => data[i].created_at >= data[j].created_at

====
